---- MODULE Spec2Model ----
(***************************************************************************)
(* Model of the automatic assignment engine of the Twitter engagement      *)
(* platform (src/server.js, in-memory revision with smart profiling,       *)
(* lines 714-2039), together with the cooldown manager and the             *)
(* MongoDB-backed eligibility filter (lines 2348-2376).                    *)
(*                                                                         *)
(* Time is counted in seconds from the start of the process.  Math.random  *)
(* is a stream of values v in 0..RandDen-1 standing for v/RandDen; every   *)
(* call of Math.random consumes the next value of the stream.              *)
(***************************************************************************)
EXTENDS Integers, Sequences, FiniteSets, Bags, TLC

VARIABLES now, shortTicks, longTicks, users, campaigns, assignments,
          cooldowns, timers, notifiers, lastCooldownCall, uncaught,
          listeners, handlers, lastText,
          userProfilingStates, keyboards, profilingTimers, profilingFault

\* the Telegram bot: the listeners registered for 'message', the calls of
\* asynchronous handlers that wait at an await, and (followed in the
\* in-memory revision) the text of the last message of every chat
botVars == <<listeners, handlers, lastText>>

\* the profiling questionnaire: the state kept for every chat, the
\* messages in the chats that still show an inline keyboard, the pending
\* setTimeout callbacks of the questionnaire, and the function of the
\* questionnaire that threw last ("" when none threw)
profVars == <<userProfilingStates, keyboards, profilingTimers, profilingFault>>

vars == <<now, shortTicks, longTicks, users, campaigns, assignments,
          cooldowns, timers, notifiers, lastCooldownCall, uncaught, botVars, profVars>>

(***************************************************************************)
(* Bounds of the model.                                                    *)
(***************************************************************************)
MaxUsers == 3
MaxCampaigns == 2
MaxTicks == 2
MaxLongTicks == 3
MaxCooldownCalls == 2

(***************************************************************************)
(* Program constants.                                                      *)
(***************************************************************************)
HourSecs == 3600
DaySecs == 86400
LongTick == 12 * 3600
TimerDelay == 1
RandDen == 60 * 60
DefaultEngagement == 5
RecencyCap == 10
HighAuthThreshold == 80
MatchAuthThreshold == 85
CooldownBase == 24
CooldownMax == 72
CooldownMin == 12
SizeDivisor == 50
SizeMultiplierCap == 2

Roles == <<"initiator", "replier", "retweeter", "quoter">>
RoleSet == {"initiator", "replier", "retweeter", "quoter"}

Min(a, b) == IF a < b THEN a ELSE b
Max(a, b) == IF a > b THEN a ELSE b

\* Math.ceil(n / d) for n >= 0, d > 0
CeilDiv(n, d) == (n + d - 1) \div d

\* Math.round(n / d): the nearest integer, halves rounded up
Round(n, d) ==
    IF d > 0 THEN (2 * n + d) \div (2 * d)
    ELSE ((-2) * n - d) \div ((-2) * d)

(***************************************************************************)
(* Math.random: the k-th call (k = 0, 1, ...) on stream s.                 *)
(***************************************************************************)
RandomStreams ==
    { <<0>>, <<RandDen - 1>>, <<RandDen - 1, 0, 1800>> }

Rand(s, k) == s[(k % Len(s)) + 1]

\* Math.floor(Math.random() * m)
RandBelow(s, k, m) == (Rand(s, k) * m) \div RandDen

(***************************************************************************)
(* ASSIGNMENT_CONFIG.roles and the role tables of the engine.              *)
(***************************************************************************)
\* mutant: the quoter delay is 9 instead of 90 minutes
getBaseDelayForRole_ShortQuoter(role) ==
    CASE role = "initiator" -> 0
      [] role = "replier" -> 30
      [] role = "retweeter" -> 60
      [] role = "quoter" -> 9
      [] OTHER -> 0

getBaseDelayForRole(role) ==
    CASE role = "initiator" -> 0
      [] role = "replier" -> 30
      [] role = "retweeter" -> 60
      [] role = "quoter" -> 90
      [] OTHER -> 0

baseRates(role) ==
    CASE role = "initiator" -> 300
      [] role = "replier" -> 200
      [] role = "retweeter" -> 100
      [] role = "quoter" -> 250

\* mutant: the whole budget is shared out, not 65% of it
calculateEarning_FullBudget(campaign, role) ==
    Round(campaign.budget * baseRates(role),
          campaign.estimatedParticipants * 200)

\* calculateEarning: Math.round((budget * 0.65 / estimatedParticipants)
\*                              * (baseRates[role] / 200))
calculateEarning(campaign, role) ==
    Round(13 * campaign.budget * baseRates(role),
          20 * campaign.estimatedParticipants * 200)

(***************************************************************************)
(* Cooldown manager.  cooldownHours is kept in seconds:                    *)
(* 24 h * (campaignSize / 50) = 1728 s * campaignSize.                     *)
(***************************************************************************)
\* mutant: the lower clamp Math.max(minHours, ...) is missing
cooldownSeconds_NoFloor(campaignSize) ==
    LET scaled == IF campaignSize >= SizeMultiplierCap * SizeDivisor
                  THEN CooldownBase * HourSecs * SizeMultiplierCap
                  ELSE (CooldownBase * HourSecs * campaignSize) \div SizeDivisor
    IN  Min(CooldownMax * HourSecs, scaled)

cooldownSeconds(campaignSize) ==
    LET scaled == IF campaignSize >= SizeMultiplierCap * SizeDivisor
                  THEN CooldownBase * HourSecs * SizeMultiplierCap
                  ELSE (CooldownBase * HourSecs * campaignSize) \div SizeDivisor
    IN  Max(CooldownMin * HourSecs, Min(CooldownMax * HourSecs, scaled))

CooldownRecord(t, campaignSize) ==
    [until |-> t + cooldownSeconds(campaignSize),
     hours |-> cooldownSeconds(campaignSize)]

(***************************************************************************)
(* Participants.  A user record carries the fields the engine reads:       *)
(* twitterHandle is TRUE when the field holds a non-empty handle;          *)
(* twitterVerified is read by the MongoDB-backed filter only;              *)
(* hasEngagementRate / hasLastParticipation tell whether the optional      *)
(* field is present; labelWords are the keywords of                        *)
(* profile.primaryProfile.label that isUserMatchForCampaign looks for.     *)
(***************************************************************************)
NoProfile ==
    [profileCompleted |-> FALSE, authenticityScore |-> 0,
     spendingPower |-> "none", labelWords |-> {}]

User(id, handle, verified, active, reg, p) ==
    [telegramId |-> id, twitterHandle |-> handle, twitterVerified |-> verified,
     isActive |-> active, registeredAt |-> reg,
     hasEngagementRate |-> FALSE, engagementRate |-> 0,
     hasLastParticipation |-> FALSE, lastParticipation |-> 0,
     profileCompleted |-> p.profileCompleted,
     authenticityScore |-> p.authenticityScore,
     spendingPower |-> p.spendingPower, labelWords |-> p.labelWords]

(***************************************************************************)
(* Eligibility filter.                                                     *)
(***************************************************************************)
\* mutant: the cooldown table is not consulted
getAvailableUsers_NoCooldown(us, cds, t) ==
    SelectSeq(us, LAMBDA user : user.twitterHandle /\ user.isActive)

\* mutant: a cooldown still excludes at the instant it ends
getAvailableUsers_LateExpiry(us, cds, t) ==
    LET keep(user) ==
            IF ~user.twitterHandle \/ ~user.isActive THEN FALSE
            ELSE IF user.telegramId \in DOMAIN cds
                    /\ t <= cds[user.telegramId].until THEN FALSE
            ELSE TRUE
    IN  SelectSeq(us, keep)

\* in-memory revision: users.filter(...)
getAvailableUsers(us, cds, t) ==
    LET keep(user) ==
            IF ~user.twitterHandle \/ ~user.isActive THEN FALSE
            ELSE IF user.telegramId \in DOMAIN cds
                    /\ t < cds[user.telegramId].until THEN FALSE
            ELSE TRUE
    IN  SelectSeq(us, keep)

\* MongoDB-backed revision: User.find({...}) then the cooldown loop
getAvailableUsersDb(us, cds, t) ==
    LET found(user) == user.twitterHandle /\ user.twitterVerified /\ user.isActive
        free(user) == user.telegramId \notin DOMAIN cds
                      \/ t >= cds[user.telegramId].until
    IN  SelectSeq(SelectSeq(us, found), free)

(***************************************************************************)
(* Participant scorer.  Scores are kept multiplied by 5 * DaySecs so that  *)
(* 0.6 * engagement + 0.4 * min(10, hours / 24) + bonus stays an integer.  *)
(***************************************************************************)
ScoreScale == 5 * DaySecs

\* getTimeSinceLastParticipation, multiplied by DaySecs
getTimeSinceLastParticipation(user, t) ==
    LET lastParticipation == IF user.hasLastParticipation /\ user.lastParticipation # 0
                             THEN user.lastParticipation
                             ELSE user.registeredAt
    IN  Min(RecencyCap * DaySecs, t - lastParticipation)

\* user.engagementRate || 5
engagementScore(user) ==
    IF user.hasEngagementRate /\ user.engagementRate # 0
    THEN user.engagementRate ELSE DefaultEngagement

scoreOf(user, t) ==
    3 * DaySecs * engagementScore(user)
    + 2 * getTimeSinceLastParticipation(user, t)
    + (IF user.profileCompleted THEN ScoreScale ELSE 0)

\* Array.prototype.sort((a, b) => b.score - a.score): stable, descending
RECURSIVE InsertByScore(_, _, _)
InsertByScore(sorted, user, t) ==
    IF sorted = << >> THEN <<user>>
    ELSE IF scoreOf(Head(sorted), t) >= scoreOf(user, t)
         THEN <<Head(sorted)>> \o InsertByScore(Tail(sorted), user, t)
         ELSE <<user>> \o sorted

RECURSIVE SortByScore(_, _)
SortByScore(us, t) ==
    IF us = << >> THEN << >>
    ELSE InsertByScore(SortByScore(SubSeq(us, 1, Len(us) - 1), t), us[Len(us)], t)

(***************************************************************************)
(* estimatedParticipants of a campaign descriptor: hasEstimate is FALSE    *)
(* when the field is missing from the request body.                        *)
(***************************************************************************)
\* Array.prototype.slice(0, Math.min(length, estimatedParticipants)):
\* NaN counts as 0 and a negative end counts from the end of the array
SliceEnd(len, campaign) ==
    IF ~campaign.hasEstimate THEN 0
    ELSE LET m == Min(len, campaign.estimatedParticipants)
         IN  IF m < 0 THEN Max(len + m, 0) ELSE m

selectBestUsersInclusive(availableUsers, campaign, t) ==
    SubSeq(SortByScore(availableUsers, t), 1, SliceEnd(Len(availableUsers), campaign))

(***************************************************************************)
(* Role distributor.                                                       *)
(***************************************************************************)
\* isUserMatchForCampaign
isUserMatchForCampaign(user, campaign) ==
    IF ~user.profileCompleted THEN FALSE
    ELSE IF campaign.targetWords \cap user.labelWords # {} THEN TRUE
    ELSE IF campaign.package = "premium" /\ user.spendingPower = "high" THEN TRUE
    ELSE IF campaign.package = "starter" /\ user.spendingPower = "emerging" THEN TRUE
    ELSE user.authenticityScore > MatchAuthThreshold

\* distributeRolesInclusive: one entry per selected user; the role suggested
\* by getRoleForUserInclusive (one Math.random call each) is overwritten by
\* balanceRoleDistributionFairly and is not kept
distributionEntry(user, campaign) ==
    [user |-> user,
     hasProfile |-> user.profileCompleted,
     profileMatch |-> IF user.profileCompleted
                      THEN isUserMatchForCampaign(user, campaign) ELSE FALSE]

\* mutant: the shares are rounded down
rawTargetCounts_Floor(totalUsers) ==
    [initiator |-> (totalUsers * 20) \div 100,
     replier   |-> (totalUsers * 40) \div 100,
     retweeter |-> (totalUsers * 25) \div 100,
     quoter    |-> (totalUsers * 15) \div 100]

\* targetCounts of balanceRoleDistributionFairly, before the adjustment
rawTargetCounts(totalUsers) ==
    [initiator |-> CeilDiv(totalUsers * 20, 100),
     replier   |-> CeilDiv(totalUsers * 40, 100),
     retweeter |-> CeilDiv(totalUsers * 25, 100),
     quoter    |-> CeilDiv(totalUsers * 15, 100)]

SumCounts(c) == c.initiator + c.replier + c.retweeter + c.quoter

\* "Adjust to fit total users"
targetCounts(totalUsers) ==
    LET raw == rawTargetCounts(totalUsers)
        totalRoles == SumCounts(raw)
    IN  IF totalRoles > totalUsers
        THEN [raw EXCEPT !.replier = Max(1, raw.replier - (totalRoles - totalUsers))]
        ELSE raw

\* roles of distributeRoles (first revision), after its adjustment
distributeRolesCounts(totalUsers) ==
    LET raw == rawTargetCounts(totalUsers)
        totalRoles == SumCounts(raw)
        excess == totalRoles - totalUsers
    IN  IF totalRoles > totalUsers
        THEN [raw EXCEPT !.replier = Max(1, raw.replier - CeilDiv(excess, 2)),
                         !.retweeter = Max(1, raw.retweeter - (excess \div 2))]
        ELSE raw

Repeat(x, n) == [i \in 1..n |-> x]

Swap(seq, i, j) == [seq EXCEPT ![i] = seq[j], ![j] = seq[i]]

\* Fisher-Yates loop: for (i = length - 1; i > 0; i--), indices 0-based in
\* the code and 1-based here; k is the number of Math.random calls so far
RECURSIVE Shuffle(_, _, _, _)
Shuffle(seq, i, s, k) ==
    IF i <= 0 THEN seq
    ELSE Shuffle(Swap(seq, i + 1, RandBelow(s, k, i + 1) + 1), i - 1, s, k + 1)

IsAssignedIn(final, entry) ==
    \E n \in 1..Len(final) : final[n].user.telegramId = entry.user.telegramId

\* mutant: the users already made initiator are not filtered out
remainingUsersOf_NoFilter(distribution, final) == distribution

remainingUsersOf(distribution, final) ==
    SelectSeq(distribution, LAMBDA d : ~IsAssignedIn(final, d))

\* mutant: the first users of the list are made initiators whatever their
\* profile and authenticity
balanceRoleDistributionFairly_NoPreference(distribution, s, k) ==
    LET totalUsers == Len(distribution)
        target == targetCounts(totalUsers)
        initiatorsAssigned == Min(target.initiator, Len(distribution))
        first == [n \in 1..initiatorsAssigned |->
                    [user |-> distribution[n].user,
                     profileMatch |-> distribution[n].profileMatch,
                     role |-> "initiator"]]
        remainingUsers == remainingUsersOf(distribution, first)
        remainingRoles == Repeat("initiator", target.initiator - initiatorsAssigned)
                          \o Repeat("replier", target.replier)
                          \o Repeat("retweeter", target.retweeter)
                          \o Repeat("quoter", target.quoter)
        shuffled == Shuffle(remainingRoles, Len(remainingRoles) - 1, s, k)
        rest == [n \in 1..Len(remainingUsers) |->
                    [user |-> remainingUsers[n].user,
                     profileMatch |-> remainingUsers[n].profileMatch,
                     role |-> IF n <= Len(shuffled) THEN shuffled[n] ELSE "replier"]]
    IN  first \o rest

balanceRoleDistributionFairly(distribution, s, k) ==
    LET totalUsers == Len(distribution)
        target == targetCounts(totalUsers)
        highAuthUsers == SelectSeq(distribution,
                            LAMBDA d : d.hasProfile
                                /\ d.user.authenticityScore > HighAuthThreshold)
        initiatorsAssigned == Min(target.initiator, Len(highAuthUsers))
        first == [n \in 1..initiatorsAssigned |->
                    [user |-> highAuthUsers[n].user,
                     profileMatch |-> highAuthUsers[n].profileMatch,
                     role |-> "initiator"]]
        remainingUsers == remainingUsersOf(distribution, first)
        remainingRoles == Repeat("initiator", target.initiator - initiatorsAssigned)
                          \o Repeat("replier", target.replier)
                          \o Repeat("retweeter", target.retweeter)
                          \o Repeat("quoter", target.quoter)
        shuffled == Shuffle(remainingRoles, Len(remainingRoles) - 1, s, k)
        rest == [n \in 1..Len(remainingUsers) |->
                    [user |-> remainingUsers[n].user,
                     profileMatch |-> remainingUsers[n].profileMatch,
                     role |-> IF n <= Len(shuffled) THEN shuffled[n] ELSE "replier"]]
    IN  first \o rest

\* number of Math.random calls made by the Fisher-Yates loop
ShuffleCalls(distribution) ==
    LET target == targetCounts(Len(distribution))
        highAuth == Cardinality({n \in 1..Len(distribution) :
                        distribution[n].hasProfile
                        /\ distribution[n].user.authenticityScore > HighAuthThreshold})
        len == SumCounts(target) - Min(target.initiator, highAuth)
    IN  Max(len - 1, 0)

distributeRolesInclusive(selectedUsers, campaign, s) ==
    LET distribution == [n \in 1..Len(selectedUsers) |->
                            distributionEntry(selectedUsers[n], campaign)]
    IN  balanceRoleDistributionFairly(distribution, s, Len(selectedUsers))

(***************************************************************************)
(* Timing scheduler and assignment records.                                *)
(***************************************************************************)
\* createTimedAssignments: per entry one Math.random call for the delay and
\* one for the content template; k0 is the number of calls made before
\* (user: assignment.user is the scored copy of the user: its profile fields
\* and its score are kept with the assignment)
createTimedAssignments(campaign, roleDistribution, t, s, k0) ==
    [n \in 1..Len(roleDistribution) |->
        LET entry == roleDistribution[n]
            baseDelay == getBaseDelayForRole(entry.role)
            randomDelay == (Rand(s, k0 + 2 * (n - 1)) * 60 * 60) \div RandDen
        IN  [campaignId |-> campaign.id,
             userId |-> entry.user.telegramId,
             createdAt |-> t,
             role |-> entry.role,
             scheduledTime |-> t + baseDelay * 60 + randomDelay,
             status |-> "pending",
             content |-> RandBelow(s, k0 + 2 * (n - 1) + 1, 4),
             estimatedEarning |-> calculateEarning(campaign, entry.role),
             isProfileMatch |-> entry.profileMatch,
             profileCompleted |-> entry.user.profileCompleted,
             authenticityScore |-> entry.user.authenticityScore,
             score |-> scoreOf(entry.user, t)]]

(***************************************************************************)
(* Payout bonus applied by notifySelectedUsersInclusive.                   *)
(***************************************************************************)
\* mutant: the match bonus is taken on the earning already raised by the
\* profile bonus
earningWithBonus_Compounded(a) ==
    LET earning == a.estimatedEarning
        profileBonus == Round(earning * 15, 100)
        compounded == Round(earning * 115 * 110, 100 * 100)
    IN  IF ~a.profileCompleted THEN earning
        ELSE IF a.isProfileMatch /\ a.authenticityScore > HighAuthThreshold
             THEN compounded
        ELSE IF a.authenticityScore > HighAuthThreshold
             THEN earning + profileBonus
        ELSE earning

earningWithBonus(a) ==
    LET earning == a.estimatedEarning
        profileBonus == Round(earning * 15, 100)
        matchBonus == Round(earning * 10, 100)
    IN  IF ~a.profileCompleted THEN earning
        ELSE IF a.isProfileMatch /\ a.authenticityScore > HighAuthThreshold
             THEN earning + profileBonus + matchBonus
        ELSE IF a.authenticityScore > HighAuthThreshold
             THEN earning + profileBonus
        ELSE earning

(***************************************************************************)
(* The stored state at the start of the model: the server has been up for  *)
(* StartTime seconds and MaxUsers people have registered with /start;      *)
(* some linked a Twitter handle and some completed the questionnaire.      *)
(***************************************************************************)
StartTime == 20 * DaySecs

UserKinds ==
    << [handle |-> FALSE, reg |-> StartTime, profile |-> NoProfile],
       [handle |-> TRUE, reg |-> 0, profile |-> NoProfile],
       [handle |-> TRUE, reg |-> StartTime, profile |-> NoProfile],
       [handle |-> TRUE, reg |-> StartTime - DaySecs,
        profile |-> [profileCompleted |-> TRUE, authenticityScore |-> 70,
                     spendingPower |-> "moderate", labelWords |-> {}]],
       [handle |-> TRUE, reg |-> StartTime - DaySecs,
        profile |-> [profileCompleted |-> TRUE, authenticityScore |-> 95,
                     spendingPower |-> "emerging",
                     labelWords |-> {"tech", "student"}]] >>

\* the registered pools the model starts from: all users of one kind, or
\* the kinds in rotation
Pools ==
    { [n \in 1..MaxUsers |-> UserKinds[k]] : k \in {1, 3, 5} }
    \cup { [n \in 1..MaxUsers |-> UserKinds[((n + b) % 5) + 1]] : b \in 0..4 }

\* request bodies of POST /api/campaigns/create (brandName and description
\* present); hasEstimate is FALSE when estimatedParticipants is missing
CampaignInputs ==
    { [budget |-> 225000, hasEstimate |-> TRUE, estimatedParticipants |-> 40,
       package |-> "growth", targetWords |-> {}],
      [budget |-> 1000, hasEstimate |-> TRUE, estimatedParticipants |-> 2,
       package |-> "starter", targetWords |-> {"student"}],
      [budget |-> 1000, hasEstimate |-> TRUE, estimatedParticipants |-> -1,
       package |-> "growth", targetWords |-> {}],
      [budget |-> 1000, hasEstimate |-> FALSE, estimatedParticipants |-> 0,
       package |-> "growth", targetWords |-> {}] }

\* pool sizes passed to addUserToCooldown
CampaignSizes == {1, 50, 10000}

\* the chats that write to the bot; before the first update no listener is
\* registered and no handler is waiting
MaxChats == 2

Chats == 1..MaxChats

NoText == ""

BotIdle ==
    /\ listeners = {}
    /\ handlers = {}
    /\ lastText = [c \in Chats |-> NoText]

\* questionOrder of startSmartProfiling; every entry is a key of
\* PROFILING_QUESTIONS
questionOrder ==
    <<"age_range", "daily_routine", "spending_priority", "influence_style",
      "discovery_style">>

PROFILING_QUESTIONS == {questionOrder[i] : i \in 1..Len(questionOrder)}

\* userProfilingStates[chatId] is undefined
NoState == [currentQuestion |-> -1, answers |-> {}]

NoFault == ""

ProfilingIdle ==
    /\ userProfilingStates = [c \in Chats |-> NoState]
    /\ keyboards = EmptyBag
    /\ profilingTimers = << >>
    /\ profilingFault = NoFault

NoCall == [calls |-> 0, userId |-> 0, campaignSize |-> 0, at |-> 0]

Init ==
    /\ now = StartTime
    /\ shortTicks = 0
    /\ longTicks = 0
    /\ \E kinds \in Pools :
          users = [n \in 1..MaxUsers |->
                      User(n, kinds[n].handle, kinds[n].handle, TRUE,
                           kinds[n].reg, kinds[n].profile)]
    /\ campaigns = << >>
    /\ assignments = << >>
    /\ cooldowns = << >>
    /\ timers = {}
    /\ notifiers = << >>
    /\ lastCooldownCall = NoCall
    /\ uncaught = FALSE
    /\ BotIdle
    /\ ProfilingIdle

(***************************************************************************)
(* Time passes.                                                            *)
(***************************************************************************)
Tick ==
    /\ shortTicks < MaxTicks
    /\ now' = now + 1
    /\ shortTicks' = shortTicks + 1
    /\ UNCHANGED <<longTicks, users, campaigns, assignments, cooldowns,
                   timers, notifiers, lastCooldownCall, uncaught, botVars, profVars>>

TickLong ==
    /\ longTicks < MaxLongTicks
    /\ now' = now + LongTick
    /\ longTicks' = longTicks + 1
    /\ UNCHANGED <<shortTicks, users, campaigns, assignments, cooldowns,
                   timers, notifiers, lastCooldownCall, uncaught, botVars, profVars>>

(***************************************************************************)
(* POST /api/campaigns/create                                              *)
(***************************************************************************)
CreateCampaign(input) ==
    /\ Len(campaigns) < MaxCampaigns
    /\ campaigns' = Append(campaigns,
            [id |-> now, createdAt |-> now,
             budget |-> input.budget,
             hasEstimate |-> input.hasEstimate,
             estimatedParticipants |-> input.estimatedParticipants,
             package |-> input.package,
             targetWords |-> input.targetWords,
             status |-> "pending",
             participants |-> << >>])
    /\ timers' = timers \cup {Len(campaigns) + 1}
    /\ UNCHANGED <<now, shortTicks, longTicks, users, assignments, cooldowns,
                   notifiers, lastCooldownCall, uncaught, botVars, profVars>>

(***************************************************************************)
(* createAutomaticAssignments, run by the timer of campaign number c.      *)
(***************************************************************************)
BatchAssignments(campaign, selectedUsers, t, s) ==
    LET distribution == [n \in 1..Len(selectedUsers) |->
                            distributionEntry(selectedUsers[n], campaign)]
        roleDistribution == distributeRolesInclusive(selectedUsers, campaign, s)
    IN  createTimedAssignments(campaign, roleDistribution, t, s,
                               Len(selectedUsers) + ShuffleCalls(distribution))

\* mutant: the scorer sorts the stored participant list itself instead of
\* a copy of the pool
createAutomaticAssignments_SortsInPlace(c, s) ==
    /\ c \in timers
    /\ now >= campaigns[c].createdAt + TimerDelay
    /\ timers' = timers \ {c}
    /\ users' = SortByScore(users, now)
    /\ LET campaign == campaigns[c]
           availableUsers == getAvailableUsers(users, cooldowns, now)
           selectedUsers == selectBestUsersInclusive(availableUsers, campaign, now)
           campaignAssignments == BatchAssignments(campaign, selectedUsers, now, s)
       IN  IF Len(availableUsers) = 0
           THEN UNCHANGED <<campaigns, assignments, notifiers>>
           ELSE /\ assignments' = assignments \o campaignAssignments
                /\ campaigns' = [campaigns EXCEPT
                        ![c].participants =
                            [n \in 1..Len(selectedUsers) |-> selectedUsers[n].telegramId],
                        ![c].status = "active"]
                /\ notifiers' = Append(notifiers,
                        [campaign |-> c, at |-> now,
                         first |-> Len(assignments) + 1,
                         last |-> Len(assignments) + Len(campaignAssignments),
                         next |-> Len(assignments) + 1,
                         attempts |-> << >>])
    /\ UNCHANGED <<now, shortTicks, longTicks, cooldowns, lastCooldownCall, uncaught, botVars, profVars>>

\* mutant: the timer is not one-shot, it stays armed after the batch ran
createAutomaticAssignments_KeepTimer(c, s) ==
    /\ c \in timers
    /\ now >= campaigns[c].createdAt + TimerDelay
    /\ timers' = timers
    /\ LET campaign == campaigns[c]
           availableUsers == getAvailableUsers(users, cooldowns, now)
           selectedUsers == selectBestUsersInclusive(availableUsers, campaign, now)
           campaignAssignments == BatchAssignments(campaign, selectedUsers, now, s)
       IN  IF Len(availableUsers) = 0
           THEN UNCHANGED <<campaigns, assignments, notifiers>>
           ELSE /\ assignments' = assignments \o campaignAssignments
                /\ campaigns' = [campaigns EXCEPT
                        ![c].participants =
                            [n \in 1..Len(selectedUsers) |-> selectedUsers[n].telegramId],
                        ![c].status = "active"]
                /\ notifiers' = Append(notifiers,
                        [campaign |-> c, at |-> now,
                         first |-> Len(assignments) + 1,
                         last |-> Len(assignments) + Len(campaignAssignments),
                         next |-> Len(assignments) + 1,
                         attempts |-> << >>])
    /\ UNCHANGED <<now, shortTicks, longTicks, users, cooldowns, lastCooldownCall, uncaught, botVars, profVars>>

createAutomaticAssignments(c, s) ==
    /\ c \in timers
    /\ now >= campaigns[c].createdAt + TimerDelay
    /\ timers' = timers \ {c}
    /\ LET campaign == campaigns[c]
           availableUsers == getAvailableUsers(users, cooldowns, now)
           selectedUsers == selectBestUsersInclusive(availableUsers, campaign, now)
           campaignAssignments == BatchAssignments(campaign, selectedUsers, now, s)
       IN  IF Len(availableUsers) = 0
           THEN UNCHANGED <<campaigns, assignments, notifiers>>
           ELSE /\ assignments' = assignments \o campaignAssignments
                /\ campaigns' = [campaigns EXCEPT
                        ![c].participants =
                            [n \in 1..Len(selectedUsers) |-> selectedUsers[n].telegramId],
                        ![c].status = "active"]
                /\ notifiers' = Append(notifiers,
                        [campaign |-> c, at |-> now,
                         first |-> Len(assignments) + 1,
                         last |-> Len(assignments) + Len(campaignAssignments),
                         next |-> Len(assignments) + 1,
                         attempts |-> << >>])
    /\ UNCHANGED <<now, shortTicks, longTicks, users, cooldowns, lastCooldownCall, uncaught, botVars, profVars>>

(***************************************************************************)
(* One iteration of the loop of notifySelectedUsersInclusive: the message  *)
(* to the next assignment of the batch is delivered or bot.sendMessage     *)
(* rejects; the stored earning is updated only after a delivery.           *)
(* notifiers[n] is the n-th call of notifySelectedUsersInclusive: the      *)
(* slice first..last of assignments it was given, its loop position next,  *)
(* and the campaign number and time of the batch that made the call;       *)
(* attempts lists the calls of bot.sendMessage made so far, each with the  *)
(* assignment it was for and whether it resolved (delivered) or rejected   *)
(* and was logged by the catch block.                                      *)
(***************************************************************************)
\* mutant: a rejected send ends the loop, as if the try/catch were around
\* the loop instead of inside it
NotifyStep_AbortOnFailure(n, delivered) ==
    /\ n \in 1..Len(notifiers)
    /\ notifiers[n].next <= notifiers[n].last
    /\ LET i == notifiers[n].next
       IN  /\ assignments' =
                IF delivered
                THEN [assignments EXCEPT
                        ![i].estimatedEarning = earningWithBonus(assignments[i])]
                ELSE assignments
           /\ notifiers' = [notifiers EXCEPT
                    ![n].next = IF delivered THEN i + 1 ELSE notifiers[n].last + 1,
                    ![n].attempts = Append(@, [assignment |-> i,
                                               delivered |-> delivered])]
    /\ UNCHANGED <<now, shortTicks, longTicks, users, campaigns, cooldowns,
                   timers, lastCooldownCall, uncaught, botVars, profVars>>

NotifyStep(n, delivered) ==
    /\ n \in 1..Len(notifiers)
    /\ notifiers[n].next <= notifiers[n].last
    /\ LET i == notifiers[n].next
       IN  /\ assignments' =
                IF delivered
                THEN [assignments EXCEPT
                        ![i].estimatedEarning = earningWithBonus(assignments[i])]
                ELSE assignments
           /\ notifiers' = [notifiers EXCEPT
                    ![n].next = i + 1,
                    ![n].attempts = Append(@, [assignment |-> i,
                                               delivered |-> delivered])]
    /\ UNCHANGED <<now, shortTicks, longTicks, users, campaigns, cooldowns,
                   timers, lastCooldownCall, uncaught, botVars, profVars>>

(***************************************************************************)
(* addUserToCooldown: defined by the server, called by no handler.         *)
(***************************************************************************)
\* mutant: an existing record is kept, only a missing one is inserted
addUserToCooldown_KeepFirst(userId, campaignSize) ==
    /\ cooldowns' = cooldowns @@ (userId :> CooldownRecord(now, campaignSize))
    /\ lastCooldownCall' = [calls |-> lastCooldownCall.calls + 1, userId |-> userId,
                            campaignSize |-> campaignSize, at |-> now]
    /\ UNCHANGED <<now, shortTicks, longTicks, users, campaigns, assignments,
                   timers, notifiers, uncaught, botVars, profVars>>

addUserToCooldown(userId, campaignSize) ==
    /\ cooldowns' = (userId :> CooldownRecord(now, campaignSize)) @@ cooldowns
    /\ lastCooldownCall' = [calls |-> lastCooldownCall.calls + 1, userId |-> userId,
                            campaignSize |-> campaignSize, at |-> now]
    /\ UNCHANGED <<now, shortTicks, longTicks, users, campaigns, assignments,
                   timers, notifiers, uncaught, botVars, profVars>>

(***************************************************************************)
(* MongoDB-backed revision (lines 2040-4060).  POST /api/campaigns/create  *)
(* saves a Campaign document, and save() rejects a body the schema of      *)
(* src/models.js does not accept: budget is a required Number,             *)
(* estimatedParticipants an optional Number without a minimum.             *)
(***************************************************************************)
campaignSchemaAccepts(body) == body.hasBudget

\* request bodies with brandName and description; hasBudget is FALSE when
\* the budget field is missing
DbCampaignInputs ==
    { [hasBudget |-> TRUE] @@ input : input \in CampaignInputs }
    \cup { [hasBudget |-> FALSE, budget |-> 0, hasEstimate |-> TRUE,
            estimatedParticipants |-> 2, package |-> "starter",
            targetWords |-> {}] }

CreateCampaignDb(body) ==
    /\ campaignSchemaAccepts(body)
    /\ CreateCampaign(body)

\* what createAutomaticAssignments holds after const availableUsers =
\* getAvailableUsers(): the function is async and the call is not awaited,
\* so the value is a pending promise and not the array it resolves to
getAvailableUsersCall(us, cds, t) ==
    [isArray |-> FALSE, resolvesTo |-> getAvailableUsersDb(us, cds, t)]

\* availableUsers.length === 0: a promise has no length
isEmptyPool(availableUsers) ==
    availableUsers.isArray /\ Len(availableUsers.resolvesTo) = 0

\* createAutomaticAssignments of the MongoDB-backed revision, run by the
\* timer of campaign number c with no try/catch around it: the empty-pool
\* test does not return, and selectBestUsersInclusive calls
\* availableUsers.map, which is not a function of a promise; the TypeError
\* leaves the timer callback uncaught before anything is stored
createAutomaticAssignmentsDb(c) ==
    /\ c \in timers
    /\ now >= campaigns[c].createdAt + TimerDelay
    /\ timers' = timers \ {c}
    /\ LET availableUsers == getAvailableUsersCall(users, cooldowns, now)
       IN  IF isEmptyPool(availableUsers)
           THEN UNCHANGED uncaught
           ELSE uncaught' = ~availableUsers.isArray
    /\ UNCHANGED <<now, shortTicks, longTicks, users, campaigns, assignments,
                   cooldowns, notifiers, lastCooldownCall, botVars, profVars>>

\* the process ends with the uncaught exception: no handler for
\* uncaughtException is installed
NextDb ==
    \/ uncaught = FALSE /\ Tick
    \/ \E body \in DbCampaignInputs : uncaught = FALSE /\ CreateCampaignDb(body)
    \/ \E c \in 1..MaxCampaigns : uncaught = FALSE /\ createAutomaticAssignmentsDb(c)

SpecDb == Init /\ [][NextDb]_vars

(***************************************************************************)
(* The in-memory server with 10 to MaxPool registered participants, all    *)
(* with a linked handle, and one campaign large enough to select them all. *)
(***************************************************************************)
MaxPool == 12

\* none: nobody has a profile; one: only participant 2 has a profile with
\* authenticity 95; mixed: no profile, authenticity 70, authenticity 95 in
\* rotation
LargePoolShapes == {"none", "one", "mixed"}

LargePoolKind(shape, n) ==
    IF shape = "none" THEN UserKinds[3]
    ELSE IF shape = "one" THEN (IF n = 2 THEN UserKinds[5] ELSE UserKinds[3])
    ELSE UserKinds[3 + (n % 3)]

InitLarge ==
    /\ now = StartTime
    /\ shortTicks = 0
    /\ longTicks = 0
    /\ \E size \in 10..MaxPool, shape \in LargePoolShapes :
          users = [n \in 1..size |->
                      User(n, TRUE, TRUE, TRUE, LargePoolKind(shape, n).reg,
                           LargePoolKind(shape, n).profile)]
    /\ campaigns = << >>
    /\ assignments = << >>
    /\ cooldowns = << >>
    /\ timers = {}
    /\ notifiers = << >>
    /\ lastCooldownCall = NoCall
    /\ uncaught = FALSE
    /\ BotIdle
    /\ ProfilingIdle

NextLarge ==
    \/ Tick
    \/ \E input \in CampaignInputs :
          /\ campaigns = << >>
          /\ input.hasEstimate
          /\ input.estimatedParticipants >= MaxPool
          /\ CreateCampaign(input)
    \/ \E c \in 1..MaxCampaigns, s \in RandomStreams : createAutomaticAssignments(c, s)
    \/ \E n \in 1..MaxCampaigns : NotifyStep(n, TRUE)

SpecLarge == InitLarge /\ [][NextLarge]_vars

(***************************************************************************)
(* The in-memory server over stored participants that carry the optional   *)
(* fields the scorer reads: engagementRate (absent, 0, 3 or 8) and         *)
(* lastParticipation.                                                      *)
(***************************************************************************)
ScoredUser(id, kind) ==
    LET plain == User(id, TRUE, TRUE, TRUE, StartTime - DaySecs, NoProfile)
    IN  CASE kind = 1 -> [plain EXCEPT !.registeredAt = 0]
          [] kind = 2 -> [plain EXCEPT !.hasEngagementRate = TRUE,
                                       !.engagementRate = 0]
          [] kind = 3 -> [plain EXCEPT !.hasEngagementRate = TRUE,
                                       !.engagementRate = 8,
                                       !.registeredAt = 0,
                                       !.hasLastParticipation = TRUE,
                                       !.lastParticipation = StartTime - 2 * DaySecs]
          [] OTHER    -> [plain EXCEPT !.hasEngagementRate = TRUE,
                                       !.engagementRate = 3,
                                       !.profileCompleted = TRUE,
                                       !.authenticityScore = 95]

InitScore ==
    /\ now = StartTime
    /\ shortTicks = 0
    /\ longTicks = 0
    /\ \E b \in 0..3, uniform \in BOOLEAN :
          users = [n \in 1..MaxUsers |->
                      ScoredUser(n, IF uniform THEN b + 1 ELSE ((n + b) % 4) + 1)]
    /\ campaigns = << >>
    /\ assignments = << >>
    /\ cooldowns = << >>
    /\ timers = {}
    /\ notifiers = << >>
    /\ lastCooldownCall = NoCall
    /\ uncaught = FALSE
    /\ BotIdle
    /\ ProfilingIdle

NextScore ==
    \/ Tick
    \/ \E input \in CampaignInputs :
          /\ input.hasEstimate
          /\ input.estimatedParticipants >= 1
          /\ CreateCampaign(input)
    \/ \E c \in 1..MaxCampaigns, s \in RandomStreams : createAutomaticAssignments(c, s)
    \/ \E n \in 1..MaxCampaigns : NotifyStep(n, TRUE)

SpecScore == InitScore /\ [][NextScore]_vars

(***************************************************************************)
(* The Telegram bot: registration with /start and linking of the Twitter   *)
(* account with /twitter.  An update is one text message of one chat.      *)
(* node-telegram-bot-api first emits 'message' to the registered           *)
(* listeners and then calls the onText callback whose pattern matches.     *)
(* The messages are "/start", "/twitter", "verify" and handles typed with  *)
(* or without '@'; none of them holds "yes", "start", "retake" or          *)
(* "change".                                                               *)
(***************************************************************************)
MaxHandlers == 2
MaxListeners == 2
MaxSessionTicks == 2

\* one second short of the 30 minutes of a verification session, so that
\* the clock can stand between the expiry, set first, and the timeout of
\* the listener, armed later
SessionTick == 30 * 60 - 1
HandleTimeout == 5 * 60
VerificationWindow == 30 * 60
BioCheckDelay == 2

engineVars == <<shortTicks, longTicks, campaigns, assignments, cooldowns,
                timers, notifiers, lastCooldownCall, uncaught>>

EngineIdle ==
    /\ shortTicks = 0
    /\ longTicks = 0
    /\ campaigns = << >>
    /\ assignments = << >>
    /\ cooldowns = << >>
    /\ timers = {}
    /\ notifiers = << >>
    /\ lastCooldownCall = NoCall
    /\ uncaught = FALSE

Commands == {"/start", "/twitter"}

\* text.startsWith('/')
startsWithSlash(text) == text \in Commands

\* text.toLowerCase().includes('verify')
includesVerify(text) == text = "verify"

\* text.trim().replace('@', '')
stripAt(text) ==
    CASE text = "@bob" -> "bob"
      [] text = "@Alice" -> "Alice"
      [] OTHER -> text

toLowerCase(text) ==
    CASE text = "Alice" -> "alice"
      [] OTHER -> text

\* /^[A-Za-z0-9_]{1,15}$/
isValidTwitterHandle(handle) == handle \in {"alice", "Alice", "bob", "verify"}

NoHandle == ""

\* users.findIndex(u => u.telegramId === chatId), 0 for -1; also the
\* document that User.findOne({telegramId}) returns
findIndex(us, chatId) ==
    LET found == {k \in 1..Len(us) : us[k].telegramId = chatId}
    IN  IF found = {} THEN 0
        ELSE CHOOSE k \in found : \A j \in found : k <= j

\* a listener of 'message'; id tells apart the listeners (closures) that
\* removeListener is called with, and is 0 for the listeners of bot.once
Listener(kind, chatId, id) ==
    [kind |-> kind, chatId |-> chatId, id |-> id, once |-> TRUE,
     twitterHandle |-> NoHandle, verificationCode |-> 0, due |-> 0]

\* the least number from 1 on that is not in use
Fresh(used) ==
    CHOOSE n \in 1..(Cardinality(used) + 1) :
        n \notin used /\ \A m \in 1..(n - 1) : m \in used

(***************************************************************************)
(* In-memory revision: every handler runs to its end within the update.    *)
(***************************************************************************)
MemTexts == {"/start", "/twitter", "alice", "@bob"}

newUser(chatId, t) ==
    [telegramId |-> chatId, registeredAt |-> t, isActive |-> TRUE,
     earnings |-> 0, campaigns |-> 0, profileCompleted |-> FALSE,
     twitterHandle |-> NoHandle]

\* bot.once: the listeners are all removed by the emit that calls them.
\* The listener of /twitter stores the handle when the message comes from
\* its chat and is no command, and registers the listener of the profile
\* answer; then /start pushes a new user, /twitter registers its listener.
processUpdate(chatId, text) ==
    /\ LET userIndex == findIndex(users, chatId)
           heard == {l \in listeners : /\ l.kind = "handle"
                                        /\ l.chatId = chatId
                                        /\ ~startsWithSlash(text)}
           linked == heard # {} /\ userIndex # 0
           afterListeners ==
               IF linked
               THEN [users EXCEPT ![userIndex].twitterHandle = stripAt(text)]
               ELSE users
           profileListeners ==
               IF linked
               THEN {Listener("profile", chatId, 0)}
               ELSE {}
           twitterListener ==
               IF text = "/twitter"
               THEN {Listener("handle", chatId, 0)}
               ELSE {}
       IN  /\ users' = IF text = "/start" /\ userIndex = 0
                       THEN Append(afterListeners, newUser(chatId, now))
                       ELSE afterListeners
           /\ listeners' = profileListeners \cup twitterListener
    /\ lastText' = [lastText EXCEPT ![chatId] = text]
    /\ UNCHANGED <<now, handlers, engineVars, profVars>>

InitBot ==
    /\ now = StartTime
    /\ users = << >>
    /\ EngineIdle
    /\ BotIdle
    /\ ProfilingIdle

NextBot ==
    \/ Tick
    \/ \E chatId \in Chats, text \in MemTexts : processUpdate(chatId, text)

SpecBot == InitBot /\ [][NextBot]_vars

(***************************************************************************)
(* MongoDB revision with bio verification (src/twitter-service.js).  A     *)
(* handler runs up to its next await; what follows the await is a later    *)
(* step, so that the steps of several handlers interleave.  The timeout    *)
(* of a listener runs as soon as it is due, before any other callback.     *)
(***************************************************************************)
VerifyTexts == {"/twitter", "@Alice", "verify"}

newUserDoc(chatId, t) ==
    [telegramId |-> chatId, registeredAt |-> t, isActive |-> TRUE,
     earnings |-> 0, campaignsCompleted |-> 0, profileCompleted |-> FALSE,
     twitterHandle |-> NoHandle, twitterVerified |-> FALSE,
     verificationCode |-> 0, verificationExpires |-> 0]

\* mutant: the collection has no unique index on telegramId
save_NoUniqueIndex(us, doc) == Append(us, doc)

\* newUser.save(): the unique index on telegramId refuses a second document
\* of the chat (duplicate key error, caught by the handler)
save(us, doc) ==
    IF findIndex(us, doc.telegramId) # 0 THEN us ELSE Append(us, doc)

\* a call of an asynchronous handler waiting at an await; message (the
\* message that started it) and listener tell the calls apart.
\* validAtReply records whether the code of the session was stored and
\* unexpired when the verify reply arrived.
Handler(kind, chatId, pc, message, listener) ==
    [kind |-> kind, chatId |-> chatId, pc |-> pc, message |-> message,
     listener |-> listener, twitterHandle |-> NoHandle,
     verificationCode |-> 0, verificationExpires |-> 0, at |-> 0,
     validAtReply |-> FALSE]

FreshMessage == Fresh({h.message : h \in handlers})

FreshListener == Fresh({l.id : l \in listeners} \cup {h.listener : h \in handlers})

\* six random characters out of 36: every call yields a code that no
\* document, listener or handler holds
generateVerificationCode ==
    Fresh({users[k].verificationCode : k \in 1..Len(users)}
          \cup {l.verificationCode : l \in listeners}
          \cup {h.verificationCode : h \in handlers})

codeStored(us, chatId, code, t) ==
    \E k \in 1..Len(us) : /\ us[k].telegramId = chatId
                          /\ us[k].verificationCode = code
                          /\ t <= us[k].verificationExpires

NoTimerDue == \A l \in listeners : l.due > now

Advance(h, pc) == handlers' = (handlers \ {h}) \cup {[h EXCEPT !.pc = pc]}

Finish(h) == handlers' = handlers \ {h}

\* emit('message') to handleListener and verificationListener of the chat,
\* then the onText callback of the command, each up to its first await
processUpdateDb(chatId, text) ==
    /\ NoTimerDue
    /\ LET update == FreshMessage
           mine == {l \in listeners : l.chatId = chatId}
           handleCalls ==
               {[Handler("handle", chatId,
                         IF isValidTwitterHandle(toLowerCase(stripAt(text)))
                         THEN "findOther" ELSE "remove",
                         update, l.id)
                    EXCEPT !.twitterHandle = toLowerCase(stripAt(text))] :
                  l \in {m \in mine : m.kind = "handle" /\ ~startsWithSlash(text)}}
           checkCalls ==
               {[Handler("check", chatId, "findOne", update, l.id)
                    EXCEPT !.twitterHandle = l.twitterHandle,
                           !.verificationCode = l.verificationCode,
                           !.validAtReply =
                               codeStored(users, chatId, l.verificationCode, now)] :
                  l \in {m \in mine : m.kind = "verify" /\ includesVerify(text)}}
           cancelled == {l \in mine : /\ l.kind = "verify"
                                      /\ ~includesVerify(text)
                                      /\ startsWithSlash(text)}
           commandCalls ==
               CASE text = "/start" ->
                        {Handler("start", chatId, "findOne", update, 0)}
                 [] text = "/twitter" ->
                        {Handler("twitter", chatId, "findOne", update, 0)}
                 [] OTHER -> {}
       IN  /\ handlers' = handlers \cup handleCalls \cup checkCalls \cup commandCalls
           /\ listeners' = listeners \ cancelled
    /\ UNCHANGED <<now, users, lastText, engineVars, profVars>>

\* /start after await User.findOne: welcome back, or build the document
startFindOne(h) ==
    /\ h.kind = "start" /\ h.pc = "findOne"
    /\ NoTimerDue
    /\ IF findIndex(users, h.chatId) # 0
       THEN Finish(h)
       ELSE handlers' = (handlers \ {h}) \cup {[h EXCEPT !.pc = "save", !.at = now]}
    /\ UNCHANGED <<now, users, listeners, lastText, engineVars, profVars>>

\* /start: await newUser.save()
startSave(h) ==
    /\ h.kind = "start" /\ h.pc = "save"
    /\ NoTimerDue
    /\ users' = save(users, newUserDoc(h.chatId, h.at))
    /\ Finish(h)
    /\ UNCHANGED <<now, listeners, lastText, engineVars, profVars>>

\* /twitter after await User.findOne
twitterFindOne(h) ==
    /\ h.kind = "twitter" /\ h.pc = "findOne"
    /\ NoTimerDue
    /\ LET k == findIndex(users, h.chatId)
       IN  IF k = 0 \/ (users[k].twitterHandle # NoHandle /\ users[k].twitterVerified)
           THEN Finish(h)
           ELSE Advance(h, "prompt")
    /\ UNCHANGED <<now, users, listeners, lastText, engineVars, profVars>>

\* after the prompt is sent: bot.on('message', handleListener) and the
\* timeout that removes it
startCleanBioVerification(h) ==
    /\ h.kind = "twitter" /\ h.pc = "prompt"
    /\ NoTimerDue
    /\ listeners' = listeners \cup
           {[Listener("handle", h.chatId, FreshListener)
                EXCEPT !.once = FALSE, !.due = now + HandleTimeout]}
    /\ Cardinality(listeners') <= MaxListeners
    /\ Finish(h)
    /\ UNCHANGED <<now, users, lastText, engineVars, profVars>>

\* handleListener after await User.findOne for the handle verified by
\* another user: refuse, or draw the code and the expiry
handleListenerFindOther(h) ==
    /\ h.kind = "handle" /\ h.pc = "findOther"
    /\ NoTimerDue
    /\ LET existingUser ==
               \E k \in 1..Len(users) :
                   /\ users[k].twitterHandle = h.twitterHandle
                   /\ users[k].twitterVerified
                   /\ users[k].telegramId # h.chatId
       IN  IF existingUser
           THEN Advance(h, "remove")
           ELSE handlers' = (handlers \ {h}) \cup
                    {[h EXCEPT !.pc = "update",
                               !.verificationCode = generateVerificationCode,
                               !.verificationExpires = now + VerificationWindow]}
    /\ UNCHANGED <<now, users, listeners, lastText, engineVars, profVars>>

\* handleListener: await User.findOneAndUpdate with the unverified handle
handleListenerUpdate(h) ==
    /\ h.kind = "handle" /\ h.pc = "update"
    /\ NoTimerDue
    /\ LET k == findIndex(users, h.chatId)
       IN  users' = IF k = 0 THEN users
                    ELSE [users EXCEPT
                            ![k].twitterHandle = h.twitterHandle,
                            ![k].twitterVerified = FALSE,
                            ![k].verificationCode = h.verificationCode,
                            ![k].verificationExpires = h.verificationExpires]
    /\ Advance(h, "listen")
    /\ UNCHANGED <<now, listeners, lastText, engineVars, profVars>>

\* after the instructions are sent: bot.on('message', verificationListener)
\* with its timeout, then handleListener is removed
waitForCleanBioVerification(h) ==
    /\ h.kind = "handle" /\ h.pc = "listen"
    /\ NoTimerDue
    /\ listeners' =
           {l \in listeners : ~(l.kind = "handle" /\ l.id = h.listener)} \cup
           {[Listener("verify", h.chatId, FreshListener)
                EXCEPT !.once = FALSE,
                       !.twitterHandle = h.twitterHandle,
                       !.verificationCode = h.verificationCode,
                       !.due = now + VerificationWindow]}
    /\ Cardinality(listeners') <= MaxListeners
    /\ Finish(h)
    /\ UNCHANGED <<now, users, lastText, engineVars, profVars>>

\* mutant: the session is looked up by the chat alone, whatever code the
\* document holds
checkCleanBioVerificationFind_AnyCode(h) ==
    /\ h.kind = "check" /\ h.pc = "findOne"
    /\ NoTimerDue
    /\ LET found == {k \in 1..Len(users) : users[k].telegramId = h.chatId}
       IN  IF found = {} \/ \A k \in found : now > users[k].verificationExpires
           THEN Advance(h, "remove")
           ELSE handlers' = (handlers \ {h}) \cup
                    {[h EXCEPT !.pc = "delay", !.at = now + BioCheckDelay]}
    /\ UNCHANGED <<now, users, listeners, lastText, engineVars, profVars>>

\* checkCleanBioVerification after await User.findOne({telegramId,
\* verificationCode}): session not found, expired, or wait for the bio check
checkCleanBioVerificationFind(h) ==
    /\ h.kind = "check" /\ h.pc = "findOne"
    /\ NoTimerDue
    /\ LET found == {k \in 1..Len(users) :
                        /\ users[k].telegramId = h.chatId
                        /\ users[k].verificationCode = h.verificationCode}
       IN  IF found = {} \/ \A k \in found : now > users[k].verificationExpires
           THEN Advance(h, "remove")
           ELSE handlers' = (handlers \ {h}) \cup
                    {[h EXCEPT !.pc = "delay", !.at = now + BioCheckDelay]}
    /\ UNCHANGED <<now, users, listeners, lastText, engineVars, profVars>>

\* checkCleanBioVerification after the delay: isVerified is true, await
\* User.findOneAndUpdate marks the user verified
checkCleanBioVerificationMark(h) ==
    /\ h.kind = "check" /\ h.pc = "delay"
    /\ now >= h.at
    /\ NoTimerDue
    /\ LET k == findIndex(users, h.chatId)
       IN  users' = IF k = 0 THEN users
                    ELSE [users EXCEPT
                            ![k].twitterVerified = TRUE,
                            ![k].verificationCode = 0,
                            ![k].verificationExpires = 0]
    /\ Advance(h, "remove")
    /\ UNCHANGED <<now, listeners, lastText, engineVars, profVars>>

\* bot.removeListener('message', ...) at the end of a listener's call
removeListener(h) ==
    /\ h.pc = "remove"
    /\ NoTimerDue
    /\ listeners' = {l \in listeners :
                        ~(l.id = h.listener /\
                          l.kind = (IF h.kind = "check" THEN "verify" ELSE "handle"))}
    /\ Finish(h)
    /\ UNCHANGED <<now, users, lastText, engineVars, profVars>>

\* setTimeout(() => bot.removeListener(...)), 5 and 30 minutes
listenerTimeout(l) ==
    /\ l.due <= now
    /\ listeners' = listeners \ {l}
    /\ UNCHANGED <<now, users, handlers, lastText, engineVars, profVars>>

TickSession ==
    /\ longTicks < MaxSessionTicks
    /\ now' = now + SessionTick
    /\ longTicks' = longTicks + 1
    /\ UNCHANGED <<shortTicks, users, campaigns, assignments, cooldowns,
                   timers, notifiers, lastCooldownCall, uncaught, botVars, profVars>>

\* Registration.  The collection outlives the process: it is empty, or
\* holds chat 1, registered a day before with a verified handle
InitRegister ==
    /\ now = StartTime
    /\ \E registered \in BOOLEAN :
          users = IF registered
                  THEN <<[newUserDoc(1, StartTime - DaySecs)
                             EXCEPT !.twitterHandle = "alice",
                                    !.twitterVerified = TRUE]>>
                  ELSE << >>
    /\ EngineIdle
    /\ BotIdle
    /\ ProfilingIdle

NextRegister ==
    \/ Tick
    \/ \E chatId \in Chats :
          /\ processUpdateDb(chatId, "/start")
          /\ Cardinality(handlers') <= MaxHandlers
    \/ \E h \in handlers : startFindOne(h)
    \/ \E h \in handlers : startSave(h)

SpecRegister == InitRegister /\ [][NextRegister]_vars

\* Verification of the handle by the chats registered a day before.
\* SpecVerify: the messages of one chat, handled concurrently.
\* SpecVerifyPair: the messages of both chats, each handled to its end
\* before the next one arrives.
InitVerify ==
    /\ now = StartTime
    /\ users = [c \in Chats |-> newUserDoc(c, StartTime - DaySecs)]
    /\ EngineIdle
    /\ BotIdle
    /\ ProfilingIdle

NextVerify ==
    \/ TickSession
    \/ \E text \in VerifyTexts :
          /\ processUpdateDb(1, text)
          /\ Cardinality(handlers') <= MaxHandlers
    \/ \E h \in handlers : twitterFindOne(h)
    \/ \E h \in handlers : startCleanBioVerification(h)
    \/ \E h \in handlers : handleListenerFindOther(h)
    \/ \E h \in handlers : handleListenerUpdate(h)
    \/ \E h \in handlers : waitForCleanBioVerification(h)
    \/ \E h \in handlers : checkCleanBioVerificationFind(h)
    \/ \E h \in handlers : checkCleanBioVerificationMark(h)
    \/ \E h \in handlers : removeListener(h)
    \/ \E l \in listeners : listenerTimeout(l)

SpecVerify == InitVerify /\ [][NextVerify]_vars

NextVerifyPair ==
    \/ TickSession
    \/ \E chatId \in Chats, text \in VerifyTexts :
          /\ handlers = {}
          /\ processUpdateDb(chatId, text)
          /\ Cardinality(handlers') <= 1
    \/ \E h \in handlers : twitterFindOne(h)
    \/ \E h \in handlers : startCleanBioVerification(h)
    \/ \E h \in handlers : handleListenerFindOther(h)
    \/ \E h \in handlers : handleListenerUpdate(h)
    \/ \E h \in handlers : waitForCleanBioVerification(h)
    \/ \E h \in handlers : checkCleanBioVerificationFind(h)
    \/ \E h \in handlers : checkCleanBioVerificationMark(h)
    \/ \E h \in handlers : removeListener(h)
    \/ \E l \in listeners : listenerTimeout(l)

SpecVerifyPair == InitVerify /\ [][NextVerifyPair]_vars

(***************************************************************************)
(* The profiling questionnaire, in-memory revision.  The state of the     *)
(* spec is the one after both chats have registered and linked a handle;  *)
(* the listener of the profile decision of the chat that linked last may  *)
(* still be registered.  A callback query carries the callback_data of a  *)
(* button of a message that still shows its keyboard; callback_data is    *)
(* held as the list of its parts between the underscores.  Every          *)
(* question is shown with its first option.                               *)
(***************************************************************************)
MaxKeyboards == 3
MaxProfilingTimers == 2

StartProfilingDelay == 2000
NextQuestionDelay == 1500

ProfileTexts == {"/profile", "start", "yes"}

\* questionKey.split('_')
keyParts(questionKey) ==
    CASE questionKey = "age_range" -> <<"age", "range">>
      [] questionKey = "daily_routine" -> <<"daily", "routine">>
      [] questionKey = "spending_priority" -> <<"spending", "priority">>
      [] questionKey = "influence_style" -> <<"influence", "style">>
      [] questionKey = "discovery_style" -> <<"discovery", "style">>

\* parts.join('_')
join(parts) ==
    IF \E key \in PROFILING_QUESTIONS : keyParts(key) = parts
    THEN CHOOSE key \in PROFILING_QUESTIONS : keyParts(key) = parts
    ELSE "?"

\* `profile_${questionKey}_${index}`
callback_data(questionKey, index) ==
    <<"profile">> \o keyParts(questionKey) \o <<index>>

\* mutant: the key is everything between 'profile' and the last part
questionKeyOf_WholeKey(data) == join(SubSeq(data, 2, Len(data) - 1))

\* const [, questionKey, optionIndex] = data.split('_')
questionKeyOf(data) == data[2]

\* a message with an inline keyboard; done tells whether it shows "Done"
Keyboard(chatId, questionKey, done) ==
    [chatId |-> chatId, questionKey |-> questionKey, done |-> done]

Timeout(fn, chatId, delay) == [fn |-> fn, chatId |-> chatId, delay |-> delay]

linkedUser(chatId, t) ==
    [profile |-> {}] @@ [newUser(chatId, t) EXCEPT !.twitterHandle = "alice"]

\* what a call leaves behind; fault names the function that threw
Outcome(states, us, kb, fault) ==
    [states |-> states, users |-> us, keyboards |-> kb, fault |-> fault]

\* completeUserProfile: the persona of the stored answers (held as the
\* set of answered questions) goes to the user, the state is deleted
completeUserProfile(states, us, kb, chatId) ==
    LET state == states[chatId]
        userIndex == findIndex(us, chatId)
    IN  IF state = NoState
        THEN Outcome(states, us, kb, "completeUserProfile")
        ELSE Outcome([states EXCEPT ![chatId] = NoState],
                     IF userIndex # 0
                     THEN [us EXCEPT ![userIndex].profile = state.answers,
                                     ![userIndex].profileCompleted = TRUE]
                     ELSE us,
                     kb, NoFault)

\* askProfilingQuestion: state.questionOrder of an undefined state throws;
\* past the last question the profile is completed; else the question is
\* sent with its keyboard
askProfilingQuestion(states, us, kb, chatId) ==
    LET state == states[chatId]
    IN  IF state = NoState
        THEN Outcome(states, us, kb, "askProfilingQuestion")
        ELSE IF state.currentQuestion >= Len(questionOrder)
        THEN completeUserProfile(states, us, kb, chatId)
        ELSE Outcome(states, us,
                     kb (+) SetToBag({Keyboard(chatId,
                                questionOrder[state.currentQuestion + 1],
                                FALSE)}),
                     NoFault)

startSmartProfiling(states, us, kb, chatId) ==
    askProfilingQuestion(
        [states EXCEPT ![chatId] = [currentQuestion |-> 0, answers |-> {}]],
        us, kb, chatId)

Leaves(r) ==
    /\ userProfilingStates' = r.states
    /\ users' = r.users
    /\ keyboards' = r.keyboards
    /\ profilingFault' = IF r.fault = NoFault THEN profilingFault ELSE r.fault
    /\ BagCardinality(keyboards') <= MaxKeyboards

\* a text message: the listeners of bot.once are all removed by the emit
\* that calls them; the listener of the profile decision arms the timer of
\* startSmartProfiling on "yes", the listener of /profile starts the
\* questionnaire on "start"; then the onText callback of /profile
\* registers its listener
processProfileUpdate(chatId, text) ==
    LET heard(kind) == \E l \in listeners : l.kind = kind /\ l.chatId = chatId
        userIndex == findIndex(users, chatId)
        asked == /\ text = "/profile"
                 /\ userIndex # 0
                 /\ users[userIndex].twitterHandle # NoHandle
    IN  /\ listeners' =
              IF asked
              THEN {Listener(IF users[userIndex].profileCompleted
                             THEN "retake" ELSE "start", chatId, 0)}
              ELSE {}
        /\ profilingTimers' =
              IF heard("profile") /\ text = "yes"
              THEN Append(profilingTimers,
                          Timeout("startSmartProfiling", chatId,
                                  StartProfilingDelay))
              ELSE profilingTimers
        /\ Len(profilingTimers') <= MaxProfilingTimers
        /\ Leaves(IF heard("start") /\ text = "start"
                  THEN startSmartProfiling(userProfilingStates, users,
                                           keyboards, chatId)
                  ELSE Outcome(userProfilingStates, users, keyboards, NoFault))
        /\ UNCHANGED <<now, handlers, lastText, engineVars>>

\* bot.on('callback_query') for a button of the message k
callbackQuery(k) ==
    LET chatId == k.chatId
        questionKey == questionKeyOf(callback_data(k.questionKey, "0"))
        state == userProfilingStates[chatId]
    IN  /\ BagIn(k, keyboards)
        /\ IF state = NoState
           THEN UNCHANGED profVars
           ELSE IF questionKey \notin PROFILING_QUESTIONS
           THEN \* question is undefined: question.options throws
                /\ profilingFault' = "callback_query"
                /\ UNCHANGED <<userProfilingStates, keyboards, profilingTimers>>
           ELSE /\ userProfilingStates' =
                      [userProfilingStates EXCEPT ![chatId] =
                          [currentQuestion |-> state.currentQuestion + 1,
                           answers |-> state.answers \cup {questionKey}]]
                /\ keyboards' = keyboards (-) SetToBag({k})
                /\ profilingTimers' =
                      Append(profilingTimers,
                             Timeout("askProfilingQuestion", chatId,
                                     NextQuestionDelay))
                /\ Len(profilingTimers') <= MaxProfilingTimers
                /\ UNCHANGED profilingFault
        /\ UNCHANGED <<now, users, botVars, engineVars>>

\* a timer runs when no timer armed before it has a delay as short as its
\* own
profilingTimeout(i) ==
    LET timer == profilingTimers[i]
    IN  /\ \A j \in 1..(i - 1) : profilingTimers[j].delay > timer.delay
        /\ profilingTimers' =
              [j \in 1..(Len(profilingTimers) - 1) |->
                  IF j < i THEN profilingTimers[j] ELSE profilingTimers[j + 1]]
        /\ Leaves(IF timer.fn = "startSmartProfiling"
                  THEN startSmartProfiling(userProfilingStates, users,
                                           keyboards, timer.chatId)
                  ELSE askProfilingQuestion(userProfilingStates, users,
                                            keyboards, timer.chatId))
        /\ UNCHANGED <<now, botVars, engineVars>>

InitProfile ==
    /\ now = StartTime
    /\ users = [c \in Chats |-> linkedUser(c, StartTime)]
    /\ EngineIdle
    /\ handlers = {}
    /\ lastText = [c \in Chats |-> NoText]
    /\ \E c \in Chats : listeners \in {{}, {Listener("profile", c, 0)}}
    /\ ProfilingIdle

NextProfile ==
    \/ \E chatId \in Chats, text \in ProfileTexts :
           processProfileUpdate(chatId, text)
    \/ \E k \in BagToSet(keyboards) : callbackQuery(k)
    \/ \E i \in 1..Len(profilingTimers) : profilingTimeout(i)

SpecProfile == InitProfile /\ [][NextProfile]_vars

(***************************************************************************)
(* The profiling questionnaire, MongoDB revision.  userProfilingStates is  *)
(* the ProfilingState collection.  Every handler runs to its end before    *)
(* the next update or timer is handled, which is the schedule where the    *)
(* database answers at once.  startSmartProfiling is called as the         *)
(* listener of /profile calls it.  answers holds the questions with a      *)
(* chosen option; a question of type multiple is shown with one option,    *)
(* which a press switches on and off.                                      *)
(***************************************************************************)
questionType(questionKey) ==
    IF questionKey \in {"daily_routine", "discovery_style"}
    THEN "multiple" ELSE "single"

\* parts.pop()
lastPartOf(data) == data[Len(data)]

\* parts.shift(); parts.join('_') after parts.pop()
questionKeyOfDb(data) == join(SubSeq(data, 2, Len(data) - 1))

linkedUserDoc(chatId, t) ==
    [profileAnswers |-> {}] @@
    [newUserDoc(chatId, t) EXCEPT !.twitterHandle = "alice",
                                  !.twitterVerified = TRUE]

completeUserProfileDb(states, us, kb, chatId) ==
    LET state == states[chatId]
        userIndex == findIndex(us, chatId)
    IN  IF state = NoState
        THEN Outcome(states, us, kb, NoFault)
        ELSE Outcome([states EXCEPT ![chatId] = NoState],
                     IF userIndex # 0
                     THEN [us EXCEPT ![userIndex].profileAnswers = state.answers,
                                     ![userIndex].profileCompleted = TRUE]
                     ELSE us,
                     kb, NoFault)

\* the question of the state is sent with its keyboard; without a state
\* the questionnaire starts again, that is, with the first question
askProfilingQuestionDb(states, us, kb, chatId) ==
    LET fresh == [currentQuestion |-> 0, answers |-> {}]
        state == IF states[chatId] = NoState THEN fresh ELSE states[chatId]
        questionKey == questionOrder[state.currentQuestion + 1]
    IN  IF state.currentQuestion >= Len(questionOrder)
        THEN completeUserProfileDb(states, us, kb, chatId)
        ELSE Outcome([states EXCEPT ![chatId] = state], us,
                     kb (+) SetToBag({Keyboard(chatId, questionKey,
                                questionType(questionKey) = "multiple"
                                /\ questionKey \in state.answers)}),
                     NoFault)

\* deleteOne, save of the new state, askProfilingQuestion
startSmartProfilingDb(chatId) ==
    /\ Leaves(askProfilingQuestionDb(
                  [userProfilingStates EXCEPT ![chatId] = NoState],
                  users, keyboards, chatId))
    /\ UNCHANGED <<now, botVars, engineVars, profilingTimers>>

\* the state moves to the next question and the timer of
\* askProfilingQuestion is armed
nextQuestion(chatId, state, k) ==
    /\ userProfilingStates' =
          [userProfilingStates EXCEPT ![chatId] =
              [state EXCEPT !.currentQuestion = @ + 1]]
    /\ keyboards' = keyboards (-) SetToBag({k})
    /\ profilingTimers' =
          Append(profilingTimers,
                 Timeout("askProfilingQuestion", chatId, NextQuestionDelay))
    /\ Len(profilingTimers') <= MaxProfilingTimers
    /\ UNCHANGED <<users, profilingFault>>

\* bot.on('callback_query') for the button of the message k whose
\* callback_data ends with lastPart
callbackQueryDb(k, lastPart) ==
    LET chatId == k.chatId
        data == callback_data(k.questionKey, lastPart)
        questionKey == questionKeyOfDb(data)
        state == userProfilingStates[chatId]
        toggled == IF questionKey \in state.answers
                   THEN state.answers \ {questionKey}
                   ELSE state.answers \cup {questionKey}
    IN  /\ BagIn(k, keyboards)
        /\ lastPart = "done" => k.done
        /\ IF state = NoState \/ questionKey \notin PROFILING_QUESTIONS
           THEN UNCHANGED <<users, profVars>>
           ELSE IF lastPartOf(data) = "done"
           THEN IF questionType(questionKey) = "multiple"
                THEN nextQuestion(chatId, state, k)
                ELSE UNCHANGED <<users, profVars>>
           ELSE IF questionType(questionKey) = "multiple"
           THEN /\ Leaves(askProfilingQuestionDb(
                             [userProfilingStates EXCEPT ![chatId] =
                                 [state EXCEPT !.answers = toggled]],
                             users, keyboards, chatId))
                /\ UNCHANGED profilingTimers
           ELSE nextQuestion(chatId,
                             [state EXCEPT !.answers = @ \cup {questionKey}],
                             k)
        /\ UNCHANGED <<now, botVars, engineVars>>

\* setTimeout(() => askProfilingQuestion(chatId), 1500): in the order armed
profilingTimeoutDb ==
    /\ profilingTimers # << >>
    /\ profilingTimers' = Tail(profilingTimers)
    /\ Leaves(askProfilingQuestionDb(userProfilingStates, users, keyboards,
                                     Head(profilingTimers).chatId))
    /\ UNCHANGED <<now, botVars, engineVars>>

InitProfileDb ==
    /\ now = StartTime
    /\ users = [c \in Chats |-> linkedUserDoc(c, StartTime)]
    /\ EngineIdle
    /\ BotIdle
    /\ ProfilingIdle

NextProfileDb ==
    \/ \E chatId \in Chats : startSmartProfilingDb(chatId)
    \/ \E k \in BagToSet(keyboards), lastPart \in {"0", "done"} :
           callbackQueryDb(k, lastPart)
    \/ profilingTimeoutDb

SpecProfileDb == InitProfileDb /\ [][NextProfileDb]_vars

(***************************************************************************)
(* TwitterService.verifyBioCode (src/twitter-service.js).  A string is     *)
(* the list of its characters.  The call waits at await getUserProfile     *)
(* until the request of axios settles; what Twitter answers is chosen      *)
(* when it settles.                                                        *)
(***************************************************************************)
MaxBio == 3
MaxCode == 2

Characters == {"A", "b"}

Strings(n) == UNION {[1..m -> Characters] : m \in 0..n}

\* mutant: the code is looked for at the start of the bio only
includes_AtStart(text, word) ==
    /\ Len(word) <= Len(text)
    /\ \A i \in 1..Len(word) : text[i] = word[i]

\* String.prototype.includes: the word stands at some position of the text
includes(text, word) ==
    \E k \in 0..(Len(text) - Len(word)) :
        \A i \in 1..Len(word) : text[k + i] = word[i]

\* what axios.get settles with: a rejection (network, 4xx, 5xx), a body
\* without data (unknown user), or the user object, whose description may
\* be missing or empty
NoProfileData == [found |-> FALSE, hasDescription |-> FALSE, description |-> << >>]

Responses ==
    {[status |-> "rejected", data |-> NoProfileData],
     [status |-> "fulfilled", data |-> NoProfileData]}
    \cup {[status |-> "fulfilled",
           data |-> [found |-> TRUE, hasDescription |-> FALSE,
                     description |-> << >>]]}
    \cup {[status |-> "fulfilled",
           data |-> [found |-> TRUE, hasDescription |-> TRUE,
                     description |-> d]] : d \in Strings(MaxBio)}

\* getUserProfile: response.data.data, or the Error thrown by its catch
getUserProfile(response) ==
    IF response.status = "rejected"
    THEN [threw |-> TRUE, message |-> "Failed to fetch Twitter profile",
          data |-> NoProfileData]
    ELSE [threw |-> FALSE, message |-> "", data |-> response.data]

\* the value verifyBioCode returns; what is thrown inside its try block
\* becomes the reason of a result with verified false
verifyBioCode(response, verificationCode) ==
    LET fetched == getUserProfile(response)
        userProfile == fetched.data
    IN  IF fetched.threw
        THEN [verified |-> FALSE, reason |-> fetched.message, threw |-> FALSE]
        ELSE IF ~userProfile.found \/ ~userProfile.hasDescription
                \/ userProfile.description = << >>
        THEN [verified |-> FALSE, reason |-> "Profile not found or no bio",
              threw |-> FALSE]
        ELSE LET bioContainsCode ==
                     includes(userProfile.description, verificationCode)
             IN  [verified |-> bioContainsCode,
                  reason |-> IF bioContainsCode THEN "Code found in bio"
                             ELSE "Code not found in bio",
                  threw |-> FALSE]

BioCall(pc, verificationCode, response, result) ==
    [kind |-> "verifyBioCode", pc |-> pc, verificationCode |-> verificationCode,
     response |-> response, result |-> result]

NoResult == [verified |-> FALSE, reason |-> "", threw |-> FALSE]

verifyBioCodeCall(verificationCode) ==
    /\ handlers = {}
    /\ handlers' = {BioCall("getUserProfile", verificationCode,
                            [status |-> "pending", data |-> NoProfileData],
                            NoResult)}
    /\ UNCHANGED <<now, users, listeners, lastText, engineVars, profVars>>

getUserProfileSettles(h, response) ==
    /\ h.pc = "getUserProfile"
    /\ handlers' = {BioCall("returned", h.verificationCode, response,
                            verifyBioCode(response, h.verificationCode))}
    /\ UNCHANGED <<now, users, listeners, lastText, engineVars, profVars>>

verifyBioCodeReturns(h) ==
    /\ h.pc = "returned"
    /\ handlers' = {}
    /\ UNCHANGED <<now, users, listeners, lastText, engineVars, profVars>>

InitBio ==
    /\ now = StartTime
    /\ users = << >>
    /\ EngineIdle
    /\ BotIdle
    /\ ProfilingIdle

NextBio ==
    \/ \E verificationCode \in Strings(MaxCode) :
           verifyBioCodeCall(verificationCode)
    \/ \E h \in handlers, response \in Responses :
           getUserProfileSettles(h, response)
    \/ \E h \in handlers : verifyBioCodeReturns(h)

SpecBio == InitBio /\ [][NextBio]_vars

(***************************************************************************)
(* Spec: the server as it is wired.  SpecCooldown: the same server with    *)
(* the cooldown manager driven by a caller.                                *)
(***************************************************************************)
Next ==
    \/ Tick
    \/ \E input \in CampaignInputs : CreateCampaign(input)
    \/ \E c \in 1..MaxCampaigns, s \in RandomStreams : createAutomaticAssignments(c, s)
    \/ \E n \in 1..MaxCampaigns, delivered \in BOOLEAN : NotifyStep(n, delivered)

Spec == Init /\ [][Next]_vars

NextCooldown ==
    \/ TickLong
    \/ \E input \in CampaignInputs : campaigns = << >> /\ CreateCampaign(input)
    \/ \E c \in 1..MaxCampaigns : createAutomaticAssignments(c, <<RandDen - 1, 0, 1800>>)
    \/ \E n \in 1..MaxCampaigns : NotifyStep(n, TRUE)
    \/ \E u \in 1..MaxUsers, size \in CampaignSizes :
          lastCooldownCall.calls < MaxCooldownCalls /\ addUserToCooldown(u, size)

SpecCooldown == Init /\ [][NextCooldown]_vars

(***************************************************************************)
(* Readings of the state used by the properties.                           *)
(***************************************************************************)
BatchOf(n) == SubSeq(assignments, notifiers[n].first, notifiers[n].last)

ParticipantsOf(n) == campaigns[notifiers[n].campaign].participants

CountRole(batch, role) == Cardinality({i \in 1..Len(batch) : batch[i].role = role})

RECURSIVE SumEarnings(_)
SumEarnings(batch) ==
    IF batch = << >> THEN 0
    ELSE Head(batch).estimatedEarning + SumEarnings(Tail(batch))

\* base delays in minutes as the timing contract states them
ContractDelay(role) ==
    IF role = "initiator" THEN 0
    ELSE IF role = "replier" THEN 30
    ELSE IF role = "retweeter" THEN 60
    ELSE 90

(***************************************************************************)
(* C1: every batch holds exactly one (participant, role) pair for each of  *)
(* its T selected participants, each with one of the four roles, so the    *)
(* four role counts add up to T and nobody holds two assignments.          *)
(***************************************************************************)
C1_OneRolePerParticipant ==
    \A n \in 1..Len(notifiers) :
        LET batch == BatchOf(n)
            selected == ParticipantsOf(n)
        IN  /\ Len(batch) = Len(selected)
            /\ \A p \in 1..Len(selected) :
                  Cardinality({i \in 1..Len(batch) : batch[i].userId = selected[p]}) = 1
            /\ \A i \in 1..Len(batch) : batch[i].role \in RoleSet
            /\ CountRole(batch, "initiator") + CountRole(batch, "replier")
               + CountRole(batch, "retweeter") + CountRole(batch, "quoter")
               = Len(selected)

\* a batch of three participants, one of them made initiator from the
\* high-authenticity list, the others given shuffled roles
C1_Witness ==
    \E n \in 1..Len(notifiers) :
        /\ Len(ParticipantsOf(n)) >= 3
        /\ \E i \in 1..Len(BatchOf(n)) :
              BatchOf(n)[i].authenticityScore > HighAuthThreshold
        /\ \E i \in 1..Len(BatchOf(n)) : BatchOf(n)[i].role # "initiator"

(***************************************************************************)
(* C3: in every batch that found a non-empty eligible pool, the number of  *)
(* selected participants is min(pool size, estimatedParticipants) and no   *)
(* eligible participant left out scores strictly higher than a selected    *)
(* one.                                                                    *)
(***************************************************************************)
PoolAt(n) == getAvailableUsers(users, cooldowns, notifiers[n].at)

UserById(id) == users[CHOOSE k \in 1..Len(users) : users[k].telegramId = id]

C3_TopOfRanking ==
    \A n \in 1..Len(notifiers) :
        LET pool == PoolAt(n)
            campaign == campaigns[notifiers[n].campaign]
            selected == ParticipantsOf(n)
            isSelected(id) == \E p \in 1..Len(selected) : selected[p] = id
        IN  Len(pool) > 0 =>
              /\ campaign.hasEstimate
              /\ Len(selected) = Min(Len(pool), campaign.estimatedParticipants)
              /\ \A k \in 1..Len(pool), p \in 1..Len(selected) :
                    ~isSelected(pool[k].telegramId) =>
                        scoreOf(pool[k], notifiers[n].at)
                            <= scoreOf(UserById(selected[p]), notifiers[n].at)

(***************************************************************************)
(* C4: for a campaign with budget > 0 and estimatedParticipants >= 1, the  *)
(* earnings of a batch, before any bonus is added, sum to at most          *)
(* 0.65 x budget plus half a currency unit per assignment.                 *)
(***************************************************************************)
C4_PayoutWithinPool ==
    \A n \in 1..Len(notifiers) :
        LET campaign == campaigns[notifiers[n].campaign]
        IN  (/\ notifiers[n].next = notifiers[n].first
             /\ campaign.budget > 0
             /\ campaign.hasEstimate
             /\ campaign.estimatedParticipants >= 1)
            => 20 * SumEarnings(BatchOf(n))
                  <= 13 * campaign.budget + 10 * Len(BatchOf(n))

(***************************************************************************)
(* C5: once a batch has created assignments, every participant assigned    *)
(* in it has a cooldown record that ends after the batch time, at the      *)
(* batch time plus a cooldown of 12 to 72 hours.                           *)
(***************************************************************************)
C5_CooldownAfterBatch ==
    \A i \in 1..Len(assignments) :
        /\ assignments[i].userId \in DOMAIN cooldowns
        /\ cooldowns[assignments[i].userId].until
              >= assignments[i].createdAt + CooldownMin * HourSecs

(***************************************************************************)
(* C6: a participant assigned by one batch is not selected by a later      *)
(* batch of another campaign that runs less than 12 hours after it.        *)
(***************************************************************************)
C6_NoReselectionInCooldown ==
    \A n, m \in 1..Len(notifiers) :
        (n < m /\ notifiers[m].at - notifiers[n].at < CooldownMin * HourSecs)
        => \A i \in 1..Len(BatchOf(n)), j \in 1..Len(BatchOf(m)) :
              BatchOf(n)[i].userId # BatchOf(m)[j].userId

(***************************************************************************)
(* C9: every scheduledTime is the batch time plus the base delay of the    *)
(* role (0, 30, 60, 90 minutes) plus a jitter of less than 60 minutes; it  *)
(* is never before the batch time, a later role precedes an earlier role   *)
(* of the batch by less than 60 minutes, and roles whose bases are 60      *)
(* minutes or more apart never invert.                                     *)
(***************************************************************************)
C9_ScheduledTimes ==
    \A n \in 1..Len(notifiers) :
        LET batch == BatchOf(n)
        IN  /\ \A i \in 1..Len(batch) :
                  LET jitter == batch[i].scheduledTime - notifiers[n].at
                                - ContractDelay(batch[i].role) * 60
                  IN  /\ 0 <= jitter
                      /\ jitter < 60 * 60
                      /\ batch[i].scheduledTime >= notifiers[n].at
            /\ \A i, j \in 1..Len(batch) :
                  ContractDelay(batch[i].role) < ContractDelay(batch[j].role)
                  => /\ batch[i].scheduledTime - batch[j].scheduledTime < 60 * 60
                     /\ (ContractDelay(batch[j].role) - ContractDelay(batch[i].role) >= 60
                         => batch[j].scheduledTime >= batch[i].scheduledTime)

\* a local inversion: a replier scheduled before an initiator of its batch
C9_Witness ==
    \E n \in 1..Len(notifiers) :
        \E i, j \in 1..Len(BatchOf(n)) :
            /\ ContractDelay(BatchOf(n)[i].role) < ContractDelay(BatchOf(n)[j].role)
            /\ BatchOf(n)[j].scheduledTime < BatchOf(n)[i].scheduledTime
            /\ BatchOf(n)[j].scheduledTime > notifiers[n].at

(***************************************************************************)
(* C10: for T >= 1 selected participants the role targets start as         *)
(* ceil(0.2T), ceil(0.4T), ceil(0.25T), ceil(0.15T) and after the          *)
(* reconciliation add up to exactly T.                                     *)
(***************************************************************************)
C10_TargetsSumToT ==
    \A n \in 1..Len(notifiers) :
        LET T == Len(ParticipantsOf(n))
        IN  T >= 1 =>
              /\ 5 * (rawTargetCounts(T).initiator - 1) < T
              /\ T <= 5 * rawTargetCounts(T).initiator
              /\ 5 * (rawTargetCounts(T).replier - 1) < 2 * T
              /\ 2 * T <= 5 * rawTargetCounts(T).replier
              /\ 4 * (rawTargetCounts(T).retweeter - 1) < T
              /\ T <= 4 * rawTargetCounts(T).retweeter
              /\ 20 * (rawTargetCounts(T).quoter - 1) < 3 * T
              /\ 3 * T <= 20 * rawTargetCounts(T).quoter
              /\ SumCounts(targetCounts(T)) = T
              /\ SumCounts(distributeRolesCounts(T)) = T

(***************************************************************************)
(* C2: the eligibility filter returns exactly the participants with a      *)
(* verified handle who are active and have no cooldown record or one with  *)
(* now >= until; and every assignment a batch creates goes to a            *)
(* participant who was eligible in that sense when the batch ran.          *)
(***************************************************************************)
IdsOf(us) == {us[k].telegramId : k \in 1..Len(us)}

CooldownOver(id, t) == id \notin DOMAIN cooldowns \/ t >= cooldowns[id].until

EligibleNow(user) ==
    user.twitterHandle /\ user.isActive /\ CooldownOver(user.telegramId, now)

C2_FilterExact ==
    /\ IdsOf(getAvailableUsers(users, cooldowns, now))
          = {users[k].telegramId : k \in {j \in 1..Len(users) : EligibleNow(users[j])}}
    /\ IdsOf(getAvailableUsersDb(users, cooldowns, now))
          = {users[k].telegramId :
                k \in {j \in 1..Len(users) :
                          EligibleNow(users[j]) /\ users[j].twitterVerified}}

C2_NewAssignmentsEligible ==
    \A i \in (Len(assignments) + 1)..Len(assignments') :
        \E k \in 1..Len(users) :
            /\ users[k].telegramId = assignments'[i].userId
            /\ EligibleNow(users[k])

C7_ExcludedUntilExpiry ==
    \A k \in 1..Len(users) :
        users[k].telegramId \in DOMAIN cooldowns =>
            LET id == users[k].telegramId
                inPool == id \in IdsOf(getAvailableUsers(users, cooldowns, now))
                inPoolDb == id \in IdsOf(getAvailableUsersDb(users, cooldowns, now))
            IN  /\ now < cooldowns[id].until => (~inPool /\ ~inPoolDb)
                /\ (/\ now >= cooldowns[id].until
                    /\ users[k].isActive
                    /\ users[k].twitterHandle
                    /\ users[k].twitterVerified) => (inPool /\ inPoolDb)

C7_RecordKept == DOMAIN cooldowns \subseteq DOMAIN cooldowns'

C7_CooldownExpires ==
    [] C7_ExcludedUntilExpiry /\ [][C7_RecordKept]_vars

\* a participant whose cooldown has run out: the record is still stored
\* and the participant is back in the pool
C7_Witness ==
    \E k \in 1..Len(users) :
        /\ k \in DOMAIN cooldowns
        /\ now >= cooldowns[k].until
        /\ k \in IdsOf(getAvailableUsers(users, cooldowns, now))

(***************************************************************************)
(* C8: for every pool size >= 1 the cooldown is                            *)
(* clamp(24 x min(2, poolSize / 50), 12, 72) hours, hence within 12 and 72 *)
(* hours.  Durations are compared in seconds, multiplied by 50.            *)
(***************************************************************************)
C8_CooldownClamped ==
    /\ \A id \in DOMAIN cooldowns :
          /\ cooldowns[id].hours >= 12 * 3600
          /\ cooldowns[id].hours <= 72 * 3600
    /\ lastCooldownCall.calls > 0 =>
          LET rec == cooldowns[lastCooldownCall.userId]
              size == lastCooldownCall.campaignSize
              unclamped50 == 24 * 3600 * (IF size < 100 THEN size ELSE 100)
              clamped50 == IF unclamped50 < 12 * 3600 * 50 THEN 12 * 3600 * 50
                           ELSE IF unclamped50 > 72 * 3600 * 50 THEN 72 * 3600 * 50
                           ELSE unclamped50
          IN  /\ rec.hours * 50 = clamped50
              /\ rec.until = lastCooldownCall.at + rec.hours

\* the two extremes: a pool of 1 and a pool of 10000 have both been given
C8_Witness ==
    \E a, b \in DOMAIN cooldowns :
        /\ cooldowns[a].hours = 12 * 3600
        /\ cooldowns[b].hours = 48 * 3600
        /\ lastCooldownCall.campaignSize = 10000

(***************************************************************************)
(* C11: in every batch of T >= 10 selected participants the number of      *)
(* participants holding a role differs from that role's share of T (20%    *)
(* initiator, 40% replier, 25% retweeter, 15% quoter) by less than one     *)
(* participant.  Counts and shares are compared multiplied by 100.         *)
(***************************************************************************)
RoleShare(role) ==
    IF role = "initiator" THEN 20
    ELSE IF role = "replier" THEN 40
    ELSE IF role = "retweeter" THEN 25
    ELSE 15

C11_RoleProportions ==
    \A n \in 1..Len(notifiers) :
        LET batch == BatchOf(n)
            T == Len(ParticipantsOf(n))
        IN  T >= 10 =>
              \A role \in RoleSet :
                  /\ 100 * CountRole(batch, role) - RoleShare(role) * T < 100
                  /\ RoleShare(role) * T - 100 * CountRole(batch, role) < 100

(***************************************************************************)
(* C12: a batch never holds more initiators than ceil(0.2 T); when at      *)
(* least that many selected participants have a completed profile and an   *)
(* authenticity score above 80, every initiator is one of them; otherwise  *)
(* all of them are initiators and at most the shortfall comes from the     *)
(* other participants.                                                     *)
(***************************************************************************)
C12_InitiatorPreference ==
    \A n \in 1..Len(notifiers) :
        LET batch == BatchOf(n)
            T == Len(ParticipantsOf(n))
            target == (T + 4) \div 5
            high == {i \in 1..Len(batch) :
                        batch[i].profileCompleted /\ batch[i].authenticityScore > 80}
            inits == {i \in 1..Len(batch) : batch[i].role = "initiator"}
        IN  /\ Cardinality(inits) <= target
            /\ Cardinality(high) >= target => inits \subseteq high
            /\ Cardinality(high) < target =>
                  /\ high \subseteq inits
                  /\ Cardinality(inits \ high) <= target - Cardinality(high)

\* a batch of ten or more with a single high-authenticity participant: that
\* participant is an initiator and the shortfall is filled by another one
C12_Witness ==
    \E n \in 1..Len(notifiers) :
        LET batch == BatchOf(n)
            high == {i \in 1..Len(batch) :
                        batch[i].profileCompleted /\ batch[i].authenticityScore > 80}
            inits == {i \in 1..Len(batch) : batch[i].role = "initiator"}
        IN  /\ Len(batch) >= 10
            /\ Cardinality(high) = 1
            /\ high \subseteq inits
            /\ inits \ high # {}

(***************************************************************************)
(* C13: when the rounded-up targets add up to more than T, the replier     *)
(* target is lowered first, by at most half the excess (half of an odd     *)
(* excess counted rounded up) and not below 1, then the retweeter target   *)
(* by the rest of the excess and not below 1; the initiator and quoter     *)
(* targets stay as they were rounded.                                      *)
(***************************************************************************)
ReconciledAsStated(T, final) ==
    LET raw == [initiator |-> (T + 4) \div 5,
                replier   |-> (2 * T + 4) \div 5,
                retweeter |-> (T + 3) \div 4,
                quoter    |-> (3 * T + 19) \div 20]
        excess == raw.initiator + raw.replier + raw.retweeter + raw.quoter - T
        replierCut == raw.replier - final.replier
        rest == excess - replierCut
    IN  excess > 0 =>
          /\ final.initiator = raw.initiator
          /\ final.quoter = raw.quoter
          /\ replierCut >= 0
          /\ 2 * replierCut <= excess + 1
          /\ final.replier >= 1
          /\ final.retweeter = (IF raw.retweeter - rest < 1 THEN 1
                                ELSE raw.retweeter - rest)

C13_ReplierThenRetweeter ==
    \A n \in 1..Len(notifiers) :
        LET T == Len(ParticipantsOf(n))
        IN  T >= 1 =>
              /\ ReconciledAsStated(T, targetCounts(T))
              /\ ReconciledAsStated(T, distributeRolesCounts(T))

(***************************************************************************)
(* C14: for a campaign with estimatedParticipants >= 1 the earning stored  *)
(* with an assignment is (0.65 x budget / estimatedParticipants) x         *)
(* weight / 200 rounded to the nearest integer, with weights 300, 200,     *)
(* 100, 250, whatever the size of the batch; with budget 225000 and        *)
(* estimatedParticipants 40 a replier earns 3656 and an initiator 5484.    *)
(* Read on the assignments whose notification has not been sent yet.       *)
(***************************************************************************)
RoleWeight(role) ==
    IF role = "initiator" THEN 300
    ELSE IF role = "replier" THEN 200
    ELSE IF role = "retweeter" THEN 100
    ELSE 250

C14_EarningFormula ==
    \A n \in 1..Len(notifiers) :
        LET campaign == campaigns[notifiers[n].campaign]
        IN  (campaign.hasEstimate /\ campaign.estimatedParticipants >= 1) =>
              \A i \in notifiers[n].next..notifiers[n].last :
                  LET earning == assignments[i].estimatedEarning
                      \* 0.65 = 13 / 20: the unrounded earning is num / den
                      num == 13 * campaign.budget * RoleWeight(assignments[i].role)
                      den == 20 * campaign.estimatedParticipants * 200
                  IN  /\ 2 * (earning * den - num) <= den
                      /\ 2 * (num - earning * den) < den
                      /\ (campaign.budget = 225000 /\ campaign.estimatedParticipants = 40)
                         => /\ assignments[i].role = "replier" => earning = 3656
                            /\ assignments[i].role = "initiator" => earning = 5484

\* a batch of fewer than 40 participants for the campaign of 225000 with an
\* estimate of 40, holding an initiator at 5484 and a replier at 3656
C14_Witness ==
    \E n \in 1..Len(notifiers) :
        /\ campaigns[notifiers[n].campaign].budget = 225000
        /\ campaigns[notifiers[n].campaign].estimatedParticipants = 40
        /\ notifiers[n].next = notifiers[n].first
        /\ Len(BatchOf(n)) < 40
        /\ \E i, j \in 1..Len(BatchOf(n)) :
              /\ BatchOf(n)[i].role = "initiator"
              /\ BatchOf(n)[i].estimatedEarning = 5484
              /\ BatchOf(n)[j].role = "replier"
              /\ BatchOf(n)[j].estimatedEarning = 3656

(***************************************************************************)
(* Readings of the notification log: the delivered sends of call n, the    *)
(* base earning of an assignment and the two bonuses computed on it.       *)
(***************************************************************************)
DeliveredOf(n) ==
    {notifiers[n].attempts[k].assignment :
        k \in {j \in 1..Len(notifiers[n].attempts) : notifiers[n].attempts[j].delivered}}

BaseEarning(n, i) ==
    calculateEarning(campaigns[notifiers[n].campaign], assignments[i].role)

\* Math.round(base * pct / 100)
PercentOf(base, pct) == (2 * pct * base + 100) \div 200

(***************************************************************************)
(* C15: when the selection message is delivered, a participant with a      *)
(* completed profile gets 15% of the base earning added whatever the       *)
(* authenticity score, and a participant without a completed profile gets  *)
(* nothing added.                                                          *)
(***************************************************************************)
C15_ProfileBonus ==
    \A n \in 1..Len(notifiers) :
        \A i \in DeliveredOf(n) :
            LET base == BaseEarning(n, i)
                added == assignments[i].estimatedEarning - base
            IN  IF assignments[i].profileCompleted
                THEN added \in {PercentOf(base, 15),
                                PercentOf(base, 15) + PercentOf(base, 10)}
                ELSE added = 0

(***************************************************************************)
(* C16: a participant with a completed profile, authenticity above 80 and  *)
(* a profile match ends with base + round(0.15 base) + round(0.10 base):   *)
(* both bonuses are taken on the base and added; anybody else ends with    *)
(* the base alone or the base plus the profile bonus, so the match bonus   *)
(* never comes without the profile bonus.                                  *)
(***************************************************************************)
C16_BonusesAdditive ==
    \A n \in 1..Len(notifiers) :
        \A i \in DeliveredOf(n) :
            LET base == BaseEarning(n, i)
                added == assignments[i].estimatedEarning - base
            IN  IF /\ assignments[i].profileCompleted
                   /\ assignments[i].authenticityScore > 80
                   /\ assignments[i].isProfileMatch
                THEN added = PercentOf(base, 15) + PercentOf(base, 10)
                ELSE added \in {0, PercentOf(base, 15)}

\* an initiator of the campaign of 225000 / 40 with authenticity 95 and a
\* profile match was notified: 5484 + 823 + 548
C16_Witness ==
    \E n \in 1..Len(notifiers) :
        \E i \in DeliveredOf(n) :
            /\ assignments[i].profileCompleted
            /\ assignments[i].authenticityScore > 80
            /\ assignments[i].isProfileMatch
            /\ BaseEarning(n, i) = 5484
            /\ assignments[i].estimatedEarning = 6855

(***************************************************************************)
(* C17: a batch that finds the eligible pool empty is skipped without      *)
(* error: no assignment is stored for the campaign, its participant list   *)
(* stays empty and its status stays pending.  The pool is read from the    *)
(* registered users, which do not change after the start.                  *)
(***************************************************************************)
C17_EmptyPoolSkipped ==
    \A c \in 1..Len(campaigns) :
        (/\ c \notin timers
         /\ getAvailableUsers(users, cooldowns, now) = << >>
         /\ getAvailableUsersDb(users, cooldowns, now) = << >>)
        => /\ uncaught = FALSE
           /\ campaigns[c].status = "pending"
           /\ campaigns[c].participants = << >>
           /\ \A i \in 1..Len(assignments) :
                 assignments[i].campaignId # campaigns[c].id

(***************************************************************************)
(* C18: a submission whose budget or estimatedParticipants is missing,     *)
(* zero or negative is rejected at creation: no such campaign is stored    *)
(* and no batch is started for it.                                         *)
(***************************************************************************)
C18_InvalidRejected ==
    \A c \in 1..Len(campaigns) :
        /\ campaigns[c].budget > 0
        /\ campaigns[c].hasEstimate
        /\ campaigns[c].estimatedParticipants >= 1

(***************************************************************************)
(* C19: a batch that has started runs to completion or fails with the      *)
(* error caught and logged; it never ends through an uncaught exception.   *)
(***************************************************************************)
C19_NoUncaughtException == uncaught = FALSE

(***************************************************************************)
(* C20: the selection messages of a batch are sent one at a time in the    *)
(* order of the assignment list, each assignment getting one send attempt  *)
(* whether or not an earlier send failed; a failed send changes neither    *)
(* the stored assignments nor the campaign's status and participant list.  *)
(***************************************************************************)
C20_AttemptsInOrder ==
    \A n \in 1..Len(notifiers) :
        LET attempts == notifiers[n].attempts
        IN  /\ notifiers[n].next <= notifiers[n].last + 1
            /\ Len(attempts) = notifiers[n].next - notifiers[n].first
            /\ \A k \in 1..Len(attempts) :
                  /\ attempts[k].assignment = notifiers[n].first + k - 1
                  /\ ~attempts[k].delivered =>
                        assignments[attempts[k].assignment].estimatedEarning
                            = BaseEarning(n, attempts[k].assignment)

C20_FailureLeavesState ==
    \A n \in 1..Len(notifiers) :
        (/\ Len(notifiers'[n].attempts) = Len(notifiers[n].attempts) + 1
         /\ ~notifiers'[n].attempts[Len(notifiers'[n].attempts)].delivered)
        => /\ assignments' = assignments
           /\ campaigns' = campaigns

C20_FanOutSurvivesFailure ==
    [] C20_AttemptsInOrder /\ [][C20_FailureLeavesState]_vars

\* a finished fan-out of three sends whose first send failed and whose
\* later sends were delivered
C20_Witness ==
    \E n \in 1..Len(notifiers) :
        /\ notifiers[n].next = notifiers[n].last + 1
        /\ Len(notifiers[n].attempts) = 3
        /\ ~notifiers[n].attempts[1].delivered
        /\ notifiers[n].attempts[2].delivered
        /\ notifiers[n].attempts[3].delivered
        /\ campaigns[notifiers[n].campaign].status = "active"

(***************************************************************************)
(* C21: when the creation request has answered, the new campaign is        *)
(* pending with no participants and no assignments; its batch runs only    *)
(* later, from the timer the request armed and did not wait for, and it    *)
(* is started once per campaign.                                           *)
(***************************************************************************)
BatchesOf(c) == {n \in 1..Len(notifiers) : notifiers[n].campaign = c}

C21_PendingUntilBatch ==
    \A c \in 1..Len(campaigns) :
        /\ c \in timers =>
              /\ campaigns[c].status = "pending"
              /\ campaigns[c].participants = << >>
              /\ BatchesOf(c) = {}
        /\ Cardinality(BatchesOf(c)) <= 1
        /\ \A n \in BatchesOf(c) : notifiers[n].at > campaigns[c].createdAt

C21_TimerArmedOnce ==
    /\ \A c \in 1..Len(campaigns) : c \notin timers => c \notin timers'
    /\ Len(campaigns') > Len(campaigns) =>
          /\ Len(campaigns') \in timers'
          /\ assignments' = assignments
          /\ notifiers' = notifiers
    /\ \A c \in 1..Len(campaigns) :
          campaigns'[c] # campaigns[c] => (c \in timers /\ c \notin timers')

C21_BatchAfterResponse ==
    [] C21_PendingUntilBatch /\ [][C21_TimerArmedOnce]_vars

\* one campaign's batch has run while a later campaign, already answered,
\* is still pending with its timer due
C21_Witness ==
    \E c, d \in 1..Len(campaigns) :
        /\ c \in timers
        /\ now >= campaigns[c].createdAt + TimerDelay
        /\ campaigns[c].status = "pending"
        /\ BatchesOf(d) # {}
        /\ campaigns[d].status = "active"

(***************************************************************************)
(* C22: addUserToCooldown is a last-write-wins upsert.  A call leaves one  *)
(* record for its participant, equal to what the call computes (until =    *)
(* time of the call + cooldown), whatever record was there before; a call  *)
(* repeated with the same time and pool size changes nothing; the records  *)
(* of the other participants are left as they were.                        *)
(***************************************************************************)
\* 24 h x min(2, size / 50) kept within 12 h and 72 h, in seconds
StatedCooldown(size) ==
    IF size >= 100 THEN 48 * 3600
    ELSE IF 1728 * size < 12 * 3600 THEN 12 * 3600
    ELSE 1728 * size

C22_RecordOfLastCall ==
    lastCooldownCall.calls > 0 =>
        /\ lastCooldownCall.userId \in DOMAIN cooldowns
        /\ cooldowns[lastCooldownCall.userId] =
              [until |-> lastCooldownCall.at
                         + StatedCooldown(lastCooldownCall.campaignSize),
               hours |-> StatedCooldown(lastCooldownCall.campaignSize)]

C22_UpsertStep ==
    IF lastCooldownCall'.calls = lastCooldownCall.calls + 1
    THEN LET u == lastCooldownCall'.userId
         IN  /\ DOMAIN cooldowns' = DOMAIN cooldowns \cup {u}
             /\ \A v \in DOMAIN cooldowns \ {u} : cooldowns'[v] = cooldowns[v]
             /\ (/\ lastCooldownCall.calls > 0
                 /\ lastCooldownCall.userId = u
                 /\ lastCooldownCall.campaignSize = lastCooldownCall'.campaignSize
                 /\ lastCooldownCall.at = lastCooldownCall'.at)
                => cooldowns' = cooldowns
    ELSE cooldowns' = cooldowns

C22_LastWriteWins ==
    [] C22_RecordOfLastCall /\ [][C22_UpsertStep]_vars

\* two calls for the same participant, the second one 12 hours or more
\* after the start: one record, the one of the second call
C22_Witness ==
    /\ lastCooldownCall.calls = 2
    /\ Cardinality(DOMAIN cooldowns) = 1
    /\ lastCooldownCall.at > StartTime
    /\ lastCooldownCall.campaignSize = 10000
    /\ cooldowns[lastCooldownCall.userId].until = lastCooldownCall.at + 48 * 3600

(***************************************************************************)
(* Readings of the score kept with an assignment.  Scores are in units of  *)
(* 1 / (5 x 86400): 0.6 x e is 3 x 86400 x e, 0.4 x (secs / 86400) is      *)
(* 2 x secs, and 1 is 5 x 86400.                                           *)
(***************************************************************************)
StatedRecency(user, t) ==
    LET since == t - (IF user.hasLastParticipation THEN user.lastParticipation
                      ELSE user.registeredAt)
    IN  IF since > 10 * 86400 THEN 10 * 86400 ELSE since

StatedProfilePoint(user) == IF user.profileCompleted THEN 5 * 86400 ELSE 0

(***************************************************************************)
(* C23: the score a participant is ranked with is                          *)
(* 0.6 x engagementRate (5 when the rate is absent)                        *)
(* + 0.4 x min(10, hours since lastParticipation, or since registration    *)
(* when there is no lastParticipation, / 24), plus exactly 1 if and only   *)
(* if the profile is completed; the recency term is at most 10.            *)
(***************************************************************************)
C23_ScoreFormula ==
    \A n \in 1..Len(notifiers) :
        \A i \in notifiers[n].first..notifiers[n].last :
            LET user == UserById(assignments[i].userId)
                rate == IF user.hasEngagementRate THEN user.engagementRate ELSE 5
            IN  /\ StatedRecency(user, notifiers[n].at) <= 10 * 86400
                /\ assignments[i].score =
                      3 * 86400 * rate
                      + 2 * StatedRecency(user, notifiers[n].at)
                      + StatedProfilePoint(user)

(***************************************************************************)
(* C24: a participant whose engagementRate is present, the value 0         *)
(* included, is scored with that rate; the default 5 is for an absent      *)
(* rate only.                                                              *)
(***************************************************************************)
C24_DefaultOnlyWhenAbsent ==
    \A n \in 1..Len(notifiers) :
        \A i \in notifiers[n].first..notifiers[n].last :
            LET user == UserById(assignments[i].userId)
                engagementPart == assignments[i].score
                                  - 2 * StatedRecency(user, notifiers[n].at)
                                  - StatedProfilePoint(user)
            IN  user.hasEngagementRate =>
                    engagementPart = 3 * 86400 * user.engagementRate

(***************************************************************************)
(* C25: a batch sets lastParticipation of every participant it assigns to  *)
(* the batch time.                                                         *)
(***************************************************************************)
C25_LastParticipationUpdated ==
    \A i \in 1..Len(assignments) :
        LET user == UserById(assignments[i].userId)
        IN  /\ user.hasLastParticipation
            /\ user.lastParticipation >= assignments[i].createdAt

(***************************************************************************)
(* C26: the eligibility filter, the scorer and the selector of a batch     *)
(* change nothing that is stored: the participant records, their order     *)
(* in the pool and the cooldown table are the same after the batch as      *)
(* before it.                                                              *)
(***************************************************************************)
C26_BatchLeavesPool ==
    (timers' # timers /\ Len(campaigns') = Len(campaigns))
    => /\ users' = users
       /\ cooldowns' = cooldowns

C26_SelectionIsPure == [][C26_BatchLeavesPool]_vars

\* a batch ranked a later registered participant above an earlier one, and
\* the stored list is still in registration order
C26_Witness ==
    /\ \A k \in 1..Len(users) : users[k].telegramId = k
    /\ \E n \in 1..Len(notifiers) :
          \E p, q \in 1..Len(ParticipantsOf(n)) :
              p < q /\ ParticipantsOf(n)[p] > ParticipantsOf(n)[q]

(***************************************************************************)
(* C27: registration by /start is idempotent.  Whatever the interleaving   *)
(* of the /start handlers of a chat, the chat never has two user records,  *)
(* it has exactly one when a /start handler ends, and the records that     *)
(* exist are left as they are (registration time, earnings, handle and     *)
(* profile are not reset).                                                 *)
(***************************************************************************)
DocsOf(chatId) == {k \in 1..Len(users) : users[k].telegramId = chatId}

C27_OneRecordPerChat == \A c \in Chats : Cardinality(DocsOf(c)) <= 1

C27_RegisteredAfterStart ==
    \A h \in handlers :
        (h.kind = "start" /\ ~\E g \in handlers' : g.message = h.message)
        => Cardinality({k \in 1..Len(users') :
                           users'[k].telegramId = h.chatId}) = 1

C27_StartKeepsRecords ==
    /\ Len(users') >= Len(users)
    /\ SubSeq(users', 1, Len(users)) = users

C27_StartIdempotent ==
    /\ []C27_OneRecordPerChat
    /\ [][C27_RegisteredAfterStart /\ C27_StartKeepsRecords]_vars

\* two /start of one chat interleave: the second handler found no record
\* and is about to save, the record of the first is stored
C27_Witness ==
    \E h \in handlers : /\ h.kind = "start"
                        /\ h.pc = "save"
                        /\ DocsOf(h.chatId) # {}

(***************************************************************************)
(* C28: after a registered user has sent /twitter, the next message of     *)
(* that user that is no command is stored as the user's Twitter handle,    *)
(* whatever other users sent in between.                                   *)
(***************************************************************************)
C28_HandleTaken ==
    \A u \in Chats :
        (/\ lastText[u] = "/twitter"
         /\ findIndex(users, u) # 0
         /\ lastText'[u] # lastText[u]
         /\ lastText'[u] \notin Commands)
        => users'[findIndex(users, u)].twitterHandle = stripAt(lastText'[u])

C28_NextMessageIsHandle == [][C28_HandleTaken]_vars

(***************************************************************************)
(* C29: a user becomes twitterVerified only through a verify reply that    *)
(* arrived while the code of its session was stored on the user's record   *)
(* and the 30 minutes of the code had not passed; a verify reply after     *)
(* the expiry, or for a superseded or cleared code, marks nobody.          *)
(***************************************************************************)
C29_MarkedByValidReply ==
    \A k \in 1..Len(users) :
        (~users[k].twitterVerified /\ users'[k].twitterVerified)
        => \E h \in handlers : /\ h.kind = "check"
                               /\ h.chatId = users[k].telegramId
                               /\ h.pc = "delay"
                               /\ h \notin handlers'
                               /\ h.validAtReply

C29_VerifiedOnlyInSession == [][C29_MarkedByValidReply]_vars

\* a verify reply that came in time has marked the user
C29_Witness ==
    \E h \in handlers : /\ h.kind = "check"
                        /\ h.pc = "remove"
                        /\ h.validAtReply
                        /\ DocsOf(h.chatId) # {}
                        /\ \A k \in DocsOf(h.chatId) : users[k].twitterVerified

(***************************************************************************)
(* C30: no two different users are twitterVerified with the same Twitter   *)
(* handle.                                                                 *)
(***************************************************************************)
C30_HandleVerifiedOnce ==
    \A i, j \in 1..Len(users) :
        (i # j /\ users[i].twitterVerified /\ users[j].twitterVerified)
        => users[i].twitterHandle # users[j].twitterHandle


(***************************************************************************)
(* C31  In the profiling questionnaire, profileCompleted becomes true      *)
(* only after the user has answered all five questions, and every          *)
(* accepted answer moves currentQuestion on by one, so that no question    *)
(* is skipped, whatever buttons are pressed: the questions before          *)
(* currentQuestion all hold an answer, and a user with a completed         *)
(* profile holds an answer to each of the five questions.                  *)
(***************************************************************************)
AskedBefore(state) ==
    {questionOrder[i] : i \in 1..Min(state.currentQuestion, Len(questionOrder))}

C31_NoQuestionSkipped ==
    \A c \in Chats :
        userProfilingStates[c] # NoState =>
            AskedBefore(userProfilingStates[c]) \subseteq
                userProfilingStates[c].answers

C31_CompletedAfterAllAnswers ==
    \A k \in 1..Len(users) :
        users[k].profileCompleted =>
            users[k].profileAnswers = PROFILING_QUESTIONS

C31_Questionnaire ==
    C31_NoQuestionSkipped /\ C31_CompletedAfterAllAnswers


BioHoldsCode(bio, code) ==
    \E i \in 0..Len(bio), j \in 1..(Len(bio) + 1) :
        SubSeq(bio, 1, i) \o code \o SubSeq(bio, j, Len(bio)) = bio

HasBio(response) ==
    /\ response.status = "fulfilled"
    /\ response.data.found
    /\ response.data.hasDescription
    /\ response.data.description # << >>

C33_VerifiedIffCodeInBio ==
    \A h \in handlers :
        (h.kind = "verifyBioCode" /\ h.pc = "returned") =>
            /\ ~h.result.threw
            /\ h.result.verified <=>
                  (/\ HasBio(h.response)
                   /\ BioHoldsCode(h.response.data.description,
                                   h.verificationCode))
            /\ ~HasBio(h.response) =>
                  (~h.result.verified /\ h.result.reason # "")

\* a code found past the first character of a longer bio
C33_Witness ==
    \E h \in handlers :
        /\ h.kind = "verifyBioCode"
        /\ h.pc = "returned"
        /\ h.result.verified
        /\ Len(h.verificationCode) = MaxCode
        /\ Len(h.response.data.description) = MaxBio
        /\ ~includes_AtStart(h.response.data.description, h.verificationCode)


(***************************************************************************)
(* C34  In the role distributor the shuffled list of remaining role slots  *)
(* is never shorter than the list of participants still without a role,    *)
(* for every T >= 0 and every number of high-authenticity participants,    *)
(* so that the overflow role replier is never used: the targets add up to  *)
(* T or more, and in every batch no role is held by more participants      *)
(* than its target.                                                        *)
(***************************************************************************)
MaxBatch == 40

HighAuthIn(batch) ==
    Cardinality({i \in 1..Len(batch) :
                    /\ batch[i].profileCompleted
                    /\ batch[i].authenticityScore > HighAuthThreshold})

\* lengths of remainingRoles and remainingUsers for T participants of whom
\* H have a profile with high authenticity
RemainingRoles(T, H) ==
    SumCounts(targetCounts(T)) - Min(targetCounts(T).initiator, H)

RemainingUsers(T, H) == T - Min(targetCounts(T).initiator, H)

C34_SlotsCoverParticipants ==
    /\ \A T \in 0..MaxBatch, H \in 0..MaxPool :
          H <= T => RemainingRoles(T, H) >= RemainingUsers(T, H)
    /\ \A n \in 1..Len(notifiers) :
          LET batch == BatchOf(n)
              T == Len(batch)
          IN  /\ RemainingRoles(T, HighAuthIn(batch))
                    >= RemainingUsers(T, HighAuthIn(batch))
              /\ CountRole(batch, "initiator") <= targetCounts(T).initiator
              /\ CountRole(batch, "replier") <= targetCounts(T).replier
              /\ CountRole(batch, "retweeter") <= targetCounts(T).retweeter
              /\ CountRole(batch, "quoter") <= targetCounts(T).quoter

\* a batch whose rounded targets were lowered to fit: every slot is taken
C34_Witness ==
    \E n \in 1..Len(notifiers) :
        LET batch == BatchOf(n)
            T == Len(batch)
        IN  /\ T >= 10
            /\ SumCounts(rawTargetCounts(T)) > T
            /\ HighAuthIn(batch) >= 1
            /\ RemainingRoles(T, HighAuthIn(batch))
                  = RemainingUsers(T, HighAuthIn(batch))
            /\ CountRole(batch, "replier") = targetCounts(T).replier


\* getCampaignById: campaigns.find(c => c.id === campaignId), as the
\* position of the campaign, 0 for undefined
getCampaignById(campaignId) ==
    LET found == {c \in 1..Len(campaigns) : campaigns[c].id = campaignId}
    IN  IF found = {} THEN 0
        ELSE CHOOSE c \in found : \A d \in found : c <= d

(***************************************************************************)
(* C35  Whenever the status of a campaign is active the campaign has at    *)
(* least one participant and at least one stored assignment, for every     *)
(* accepted descriptor, also one whose estimatedParticipants is 0 or       *)
(* missing.                                                                *)
(***************************************************************************)
AssignmentsFor(c) ==
    {i \in 1..Len(assignments) :
        \E n \in 1..Len(notifiers) :
            /\ notifiers[n].campaign = c
            /\ notifiers[n].first <= i
            /\ i <= notifiers[n].last}

C35_ActiveHasParticipants ==
    \A c \in 1..Len(campaigns) :
        campaigns[c].status = "active" =>
            /\ Len(campaigns[c].participants) >= 1
            /\ AssignmentsFor(c) # {}


(***************************************************************************)
(* C36  After a batch has completed, the participant list of the campaign  *)
(* holds exactly the participant ids of the assignments the batch stored   *)
(* for that campaign, each once, and is as long as the list of those       *)
(* assignments.                                                            *)
(***************************************************************************)
NoDuplicates(seq) ==
    \A i, j \in 1..Len(seq) : seq[i] = seq[j] => i = j

C36_ParticipantsAreAssigned ==
    \A n \in 1..Len(notifiers) :
        LET batch == BatchOf(n)
            participants == ParticipantsOf(n)
            userIds == [i \in 1..Len(batch) |-> batch[i].userId]
        IN  /\ Len(participants) = Len(batch)
            /\ NoDuplicates(participants)
            /\ NoDuplicates(userIds)
            /\ {participants[i] : i \in 1..Len(participants)}
                  = {userIds[i] : i \in 1..Len(userIds)}

\* a batch of several participants whose assignments are stored in another
\* order than the participants are listed
C36_Witness ==
    \E n \in 1..Len(notifiers) :
        /\ Len(BatchOf(n)) >= 2
        /\ \E i \in 1..Len(BatchOf(n)) :
              BatchOf(n)[i].userId # ParticipantsOf(n)[i]


(***************************************************************************)
(* C37  After the notification fan-out of a batch has finished, the        *)
(* stored estimatedEarning of every assignment whose participant gets a    *)
(* profile bonus (completed profile, authenticity above 80) holds that     *)
(* bonus, whether or not the message was delivered, and holds it once.     *)
(***************************************************************************)
FanOutFinished(n) == notifiers[n].next > notifiers[n].last

C37_BonusStoredOnce ==
    \A n \in 1..Len(notifiers) :
        FanOutFinished(n) =>
            \A i \in notifiers[n].first..notifiers[n].last :
                LET base == BaseEarning(n, i)
                    added == assignments[i].estimatedEarning - base
                IN  (/\ assignments[i].profileCompleted
                     /\ assignments[i].authenticityScore > HighAuthThreshold)
                    => added = PercentOf(base, 15)
                               + (IF assignments[i].isProfileMatch
                                  THEN PercentOf(base, 10) ELSE 0)


(***************************************************************************)
(* C38  Overwriting the cooldown of a participant never moves its expiry   *)
(* earlier: over any sequence of addUserToCooldown calls at non-decreasing *)
(* times and with any pool sizes, until is never earlier than an until     *)
(* recorded before for that participant.                                   *)
(***************************************************************************)
C38_UntilGrows ==
    \A u \in DOMAIN cooldowns :
        /\ u \in DOMAIN cooldowns'
        /\ cooldowns'[u].until >= cooldowns[u].until

C38_ExpiryNeverEarlier == [][C38_UntilGrows]_vars


(***************************************************************************)
(* C39  Distinct created campaigns always have distinct ids, so that       *)
(* looking up the campaign of an assignment by its campaignId gives the    *)
(* campaign the assignment was created for, also when two campaigns are    *)
(* created within the same millisecond (here: with the clock standing      *)
(* between the two requests).                                              *)
(***************************************************************************)
C39_DistinctIds ==
    \A c, d \in 1..Len(campaigns) :
        c # d => campaigns[c].id # campaigns[d].id

C39_LookupFindsOwnCampaign ==
    \A c \in 1..Len(campaigns) :
        \A i \in AssignmentsFor(c) :
            getCampaignById(assignments[i].campaignId) = c

C39_IdsIdentifyCampaigns ==
    C39_DistinctIds /\ C39_LookupFindsOwnCampaign


====
